---- MODULE Spec2Model ----
(***************************************************************************)
(* Model of zorkian/distributor: the tracker's peer registry and announce  *)
(* handler, the watcher's metadata worker with the metadata builder and    *)
(* its .mdcache sidecar, and the seed supervisor behind /serve.            *)
(***************************************************************************)
EXTENDS Integers, Sequences, FiniteSets, TLC

(***************************************************************************)
(* Bounds of the model.                                                    *)
(***************************************************************************)
MaxPeers == 2
MaxNow == 301

(***************************************************************************)
(* Program constants.                                                      *)
(***************************************************************************)
PeerAgeLimit == 300
DefaultNumWant == 50
NumWantCap == 100

None == "None"

Min(a, b) == IF a < b THEN a ELSE b

(***************************************************************************)
(* Request parameters.  url.Values maps a key to the list of its values;   *)
(* a missing key is the empty list.  Numbers arrive as decimal text, a     *)
(* sequence of characters.                                                 *)
(***************************************************************************)
PeerName == <<"P1", "P2", "P3", "P4", "P5">>
IpName == <<"10.0.0.1", "10.0.0.2">>

PeerIds == {PeerName[i] : i \in 1..MaxPeers}
\* Two hosts, so that peers can share an address or not.
Ips == {IpName[1], IpName[2]}
\* One swarm: the maps of different info-hashes never touch each other.
InfoHashes == {"X"}

Digits == {"0", "1", "2", "3", "4", "5", "6", "7", "8", "9"}

DigitVal(c) ==
    CASE c = "0" -> 0 [] c = "1" -> 1 [] c = "2" -> 2 [] c = "3" -> 3
      [] c = "4" -> 4 [] c = "5" -> 5 [] c = "6" -> 6 [] c = "7" -> 7
      [] c = "8" -> 8 [] c = "9" -> 9

Pow2(n) == IF n = 8 THEN 256 ELSE 65536

RECURSIVE DecimalValue(_)
DecimalValue(s) ==
    IF s = <<>> THEN 0
    ELSE 10 * DecimalValue(SubSeq(s, 1, Len(s) - 1)) + DigitVal(s[Len(s)])

\* strconv.ParseUint(s, 10, bitSize): a syntax error for the empty string or
\* any character that is not a digit (a sign included), a range error for a
\* value that does not fit bitSize bits.
ParseUint(s, bitSize) ==
    IF s = <<>> \/ \E i \in 1..Len(s) : s[i] \notin Digits
    THEN [err |-> TRUE, val |-> 0]
    ELSE IF DecimalValue(s) >= Pow2(bitSize)
    THEN [err |-> TRUE, val |-> Pow2(bitSize) - 1]
    ELSE [err |-> FALSE, val |-> DecimalValue(s)]

PortTexts == {<<"6", "8", "8", "1">>}
BadPortTexts == {<<"x">>, <<"7", "0", "0", "0", "0">>}
NumWantTexts == {<<"0">>, <<"1">>}
Events == {"stopped"}

Opt(S) == {<<>>} \cup {<<v>> : v \in S}

\* Well-formed announces: the ip comes from the ip parameter or, without
\* one, from the remote address of the connection.
GoodRequests ==
    [peer_id : {<<p>> : p \in PeerIds}, port : {<<t>> : t \in PortTexts},
     ip : {<<i>> : i \in Ips}, remote : {IpName[1]},
     info_hash : {<<h>> : h \in InfoHashes},
     event : Opt(Events), numwant : Opt(NumWantTexts)]
    \cup
    [peer_id : {<<p>> : p \in PeerIds}, port : {<<t>> : t \in PortTexts},
     ip : {<<>>}, remote : Ips,
     info_hash : {<<h>> : h \in InfoHashes},
     event : Opt(Events), numwant : {<<>>}]

\* Announces that parsePeer rejects.
BadRequests ==
    [peer_id : Opt({PeerName[1]}), port : Opt(BadPortTexts),
     ip : {<<>>}, remote : {IpName[1]}, info_hash : {<<"X">>},
     event : {<<>>}, numwant : {<<>>}]
    \cup
    [peer_id : {<<>>}, port : {<<t>> : t \in PortTexts},
     ip : {<<>>}, remote : {IpName[1]}, info_hash : {<<"X">>},
     event : {<<>>}, numwant : {<<>>}]

\* An announce that names no info_hash.
HashlessRequests ==
    [peer_id : {<<PeerName[1]>>}, port : {<<t>> : t \in PortTexts},
     ip : {<<>>}, remote : {IpName[1]}, info_hash : {<<>>},
     event : {<<>>}, numwant : {<<>>}]

\* The numwant texts that probe the limits of the parameter: the ends of
\* 1..100, the ends of eight bits, a sign, a word and the empty text.
WantTexts ==
    {<<"0">>, <<"1">>, <<"5", "0">>, <<"1", "0", "0">>, <<"1", "0", "1">>,
     <<"2", "5", "5">>, <<"2", "5", "6">>, <<"-", "1">>, <<"x">>, <<>>}

\* Well-formed announces that differ in numwant.
WantRequests ==
    [peer_id : {<<p>> : p \in PeerIds}, port : {<<t>> : t \in PortTexts},
     ip : {<<>>}, remote : Ips, info_hash : {<<h>> : h \in InfoHashes},
     event : {<<>>}, numwant : Opt(WantTexts)]

Requests == GoodRequests \cup BadRequests

\* The requests that exercise the validation of the parameters.
ArgRequests == BadRequests \cup HashlessRequests \cup WantRequests

\* The required parameters a request does not carry.
Lacks(r) == {k \in {"info_hash", "peer_id", "port"} : r[k] = <<>>}

\* The parses of the texts the requests carry, computed once.
PortOf == [t \in PortTexts \cup BadPortTexts |-> ParseUint(t, 16)]
NumWantParse == [t \in NumWantTexts \cup WantTexts |-> ParseUint(t, 8)]

(***************************************************************************)
(* The peer registry.                                                      *)
(***************************************************************************)
VARIABLES PeerList, PeerSeen, now, lastAnnounce

\* The announce handlers in flight, one goroutine per request, and the holder
\* of Tracker.peerListLock (0 when it is free).
VARIABLES announcers, peerListLock

lockVars == <<announcers, peerListLock>>

regVars == <<PeerList, PeerSeen, now, lastAnnounce, announcers, peerListLock>>

\* parsePeer: the Peer of a request, or the error text.
parsePeer(r) ==
    IF r.peer_id = <<>> \/ r.port = <<>>
    THEN [err |-> "missing required argument"]
    ELSE IF PortOf[r.port[1]].err
    THEN [err |-> "port invalid"]
    ELSE [err |-> None,
          peer |-> [Id |-> r.peer_id[1],
                    Ip |-> IF r.ip = <<>> THEN r.remote ELSE r.ip[1],
                    Port |-> PortOf[r.port[1]].val]]

\* The info_hash variable of handleAnnounce: the empty string when the
\* parameter is missing.
InfoHashOf(r) == IF r.info_hash = <<>> THEN "" ELSE r.info_hash[1]

EventOf(r) == IF r.event = <<>> THEN "" ELSE r.event[1]

\* The numwant variable of handleAnnounce.
NumWantOfUncapped(r) ==
    IF r.numwant = <<>> THEN DefaultNumWant
    ELSE IF NumWantParse[r.numwant[1]].err
    THEN NumWantCap
    ELSE NumWantParse[r.numwant[1]].val

NumWantOf(r) ==
    IF r.numwant = <<>> THEN DefaultNumWant
    ELSE IF NumWantParse[r.numwant[1]].err \/ NumWantParse[r.numwant[1]].val > NumWantCap
    THEN NumWantCap
    ELSE NumWantParse[r.numwant[1]].val

\* Get-or-create of the two per-info-hash maps.
MapOf(m, info_hash) == IF info_hash \in DOMAIN m THEN m[info_hash] ELSE <<>>

Restrict(f, S) == [x \in S |-> f[x]]

\* "if _, ok := peers[peer.Id]; !ok": the arriving peer id is not in the map.
IsNewPeerAlways(peers, peer) == TRUE

IsNewPeer(peers, peer) == peer.Id \notin DOMAIN peers

\* The entries the arriving peer purges: the loop building toRemove.  peerage
\* is the age of the ARRIVING peer's last report (zero when it has none).
ToRemoveNone(peers, peerseen, peer, t) == {}

ToRemove(peers, peerseen, peer, t) ==
    LET pok == peer.Id \in DOMAIN peerseen
        peerage == IF pok THEN t - peerseen[peer.Id] ELSE 0
    IN  {id \in DOMAIN peers :
            \/ peers[id].Ip = peer.Ip
            \/ (pok /\ peerage > PeerAgeLimit)}

\* "peerseen[peer.Id] = time.Now()": always, whatever the event.
StampNever(peerseen, peer, t) == peerseen

Stamp(peerseen, peer, t) == (peer.Id :> t) @@ peerseen

\* The registry after handleAnnounce has run for a parsed request at time t.
AnnounceRegistry(pl, ps, peer, info_hash, event, t) ==
    LET peers == MapOf(pl, info_hash)
        peerseen == MapOf(ps, info_hash)
        isNew == IsNewPeer(peers, peer)
        gone == IF isNew THEN ToRemove(peers, peerseen, peer, t) ELSE {}
        peers1 == IF isNew
                  THEN (peer.Id :> peer) @@ Restrict(peers, DOMAIN peers \ gone)
                  ELSE peers
        seen1 == Stamp(Restrict(peerseen, DOMAIN peerseen \ gone), peer, t)
        peers2 == IF event = "stopped"
                  THEN Restrict(peers1, DOMAIN peers1 \ {peer.Id})
                  ELSE peers1
    IN  [PeerList |-> (info_hash :> peers2) @@ pl,
         PeerSeen |-> (info_hash :> seen1) @@ ps]

\* The peers the response loop looks at: ranging over a Go map visits the
\* entries in an unspecified order, and the loop stops after cap(outPeers)
\* entries.
Windows(peers, numwant) ==
    {W \in SUBSET DOMAIN peers :
        Cardinality(W) = Min(numwant, Cardinality(DOMAIN peers))}

\* outPeers for one window.  The list holds distinct map entries, so it is
\* kept as a set; its length is the set's cardinality.
OutPeersUnfiltered(peers, W, peer) == {peers[id] : id \in W}

OutPeers(peers, W, peer) == {peers[id] : id \in {i \in W : peers[i].Ip # peer.Ip}}

NoPeer == [Id |-> "", Ip |-> "", Port |-> 0]

\* What the handler made of a request and what it answered.  "repeat" records
\* that the announce repeats the one handled just before it.
Answer(r, p, body, out) ==
    [peer |-> p, info_hash |-> InfoHashOf(r), event |-> EventOf(r),
     numwant |-> NumWantOf(r), supplied |-> r.numwant,
     body |-> body, peers |-> out, lacks |-> Lacks(r),
     repeat |-> (body = "peers" /\ lastAnnounce.body = "peers"
                 /\ lastAnnounce.peer = p
                 /\ lastAnnounce.info_hash = InfoHashOf(r)
                 /\ lastAnnounce.event = EventOf(r))]

\* One announce request, start to end: the registry part runs under
\* peerListLock, so it is one step.
handleAnnounce(requests) ==
    \E r \in requests :
        LET p == parsePeer(r) IN
        IF p.err # None
        THEN /\ lastAnnounce' = Answer(r, NoPeer, p.err, {})
             /\ UNCHANGED <<PeerList, PeerSeen, now>>
        ELSE LET info_hash == InfoHashOf(r)
                 reg == AnnounceRegistry(PeerList, PeerSeen, p.peer, info_hash,
                                         EventOf(r), now)
             IN  /\ PeerList' = reg.PeerList
                 /\ PeerSeen' = reg.PeerSeen
                 /\ \E W \in Windows(reg.PeerList[info_hash], NumWantOf(r)) :
                        lastAnnounce' =
                            Answer(r, p.peer, "peers",
                                   OutPeers(reg.PeerList[info_hash], W, p.peer))
                 /\ UNCHANGED now

TickSteps == {PeerAgeLimit, PeerAgeLimit + 1}

\* Time passes between requests.
Tick ==
    /\ \E d \in TickSteps : now + d <= MaxNow /\ now' = now + d
    /\ UNCHANGED <<PeerList, PeerSeen, lastAnnounce>>

(***************************************************************************)
(* handleAnnounce as the goroutine of one request among others: the parse  *)
(* before the lock, then the critical section in two steps, so that        *)
(* another handler running in between would be seen.                      *)
(***************************************************************************)
Announcers == {1, 2}

NoRequest ==
    [peer_id |-> <<>>, port |-> <<>>, ip |-> <<>>, remote |-> "",
     info_hash |-> <<>>, event |-> <<>>, numwant |-> <<>>]

\* "after" keeps the registry as the handler's own update left it.
IdleAnnouncer ==
    [pc |-> "idle", req |-> NoRequest,
     after |-> [PeerList |-> <<>>, PeerSeen |-> <<>>]]

\* Lines 263-291: parsePeer and the other arguments, on request-local data.
\* A request that fails to parse is answered at once.
announceParse(h, requests) ==
    /\ announcers[h].pc = "idle"
    /\ \E r \in requests :
          IF parsePeer(r).err # None
          THEN /\ lastAnnounce' = Answer(r, NoPeer, parsePeer(r).err, {})
               /\ UNCHANGED announcers
          ELSE /\ announcers' = [announcers EXCEPT ![h].pc = "lock", ![h].req = r]
               /\ UNCHANGED lastAnnounce
    /\ UNCHANGED <<PeerList, PeerSeen, now, peerListLock>>

\* sync.Mutex.Lock returns only when no one holds the mutex.
LockAlwaysFree(lock) == TRUE

LockFree(lock) == lock = 0

\* "self.peerListLock.Lock()"
announceLock(h) ==
    /\ announcers[h].pc = "lock"
    /\ LockFree(peerListLock)
    /\ peerListLock' = h
    /\ announcers' = [announcers EXCEPT ![h].pc = "update"]
    /\ UNCHANGED <<PeerList, PeerSeen, now, lastAnnounce>>

\* Lines 296-347: the maps of the info-hash, the purge, the insert, the
\* last-seen time and the removal of a stopped peer.
announceUpdate(h) ==
    /\ announcers[h].pc = "update"
    /\ LET r == announcers[h].req
           reg == AnnounceRegistry(PeerList, PeerSeen, parsePeer(r).peer,
                                   InfoHashOf(r), EventOf(r), now)
       IN  /\ PeerList' = reg.PeerList
           /\ PeerSeen' = reg.PeerSeen
           /\ announcers' = [announcers EXCEPT ![h].pc = "respond", ![h].after = reg]
    /\ UNCHANGED <<now, lastAnnounce, peerListLock>>

\* Lines 349-373: the response loop over the map as it is now, the bencoded
\* reply, and the deferred Unlock on return.
announceRespond(h) ==
    /\ announcers[h].pc = "respond"
    /\ LET r == announcers[h].req
           peers == MapOf(PeerList, InfoHashOf(r))
       IN  \E W \in Windows(peers, NumWantOf(r)) :
               lastAnnounce' = Answer(r, parsePeer(r).peer, "peers",
                                      OutPeers(peers, W, parsePeer(r).peer))
    /\ peerListLock' = 0
    /\ announcers' = [announcers EXCEPT ![h] = IdleAnnouncer]
    /\ UNCHANGED <<PeerList, PeerSeen, now>>

\* startTracker: both maps empty, no request in flight.
InitReg ==
    /\ announcers = [h \in Announcers |-> IdleAnnouncer]
    /\ peerListLock = 0
    /\ PeerList = <<>>
    /\ PeerSeen = <<>>
    /\ now = 0
    /\ lastAnnounce = [peer |-> NoPeer, info_hash |-> "", event |-> "",
                       numwant |-> 0, supplied |-> <<>>,
                       body |-> None, peers |-> {}, lacks |-> {},
                       repeat |-> FALSE]

(***************************************************************************)
(* The watched directory, the watcher's file table, the metadata worker    *)
(* and the metadata builder.                                               *)
(***************************************************************************)
MaxWrites == 2
MaxClock == 2

PIECE_LENGTH == 262144
HashSize == 20

\* One regular, non-hidden file name under the watched root.
Paths == {"a"}

\* File sizes on disk: empty, one short piece, exactly one piece, two pieces.
Sizes == {0, 1, PIECE_LENGTH, PIECE_LENGTH + 1}

\* int(math.Ceil(float64(size) / float64(PIECE_LENGTH)))
HashCount(size) == (size + PIECE_LENGTH - 1) \div PIECE_LENGTH

\* The SHA-1 digest of the n bytes found at byte offset off of the content
\* that is on disk as version ver.
Digest(ver, off, n) == <<ver, off, n>>

\* The digests of a whole content, piece by piece.
ContentHashes(ver, size) ==
    [i \in 1..HashCount(size) |->
        Digest(ver, (i - 1) * PIECE_LENGTH,
               Min(PIECE_LENGTH, size - (i - 1) * PIECE_LENGTH))]

\* A nil *MetadataInfo, and a MetadataInfo value.
NilMetadata == [nil |-> TRUE, Name |-> "", PieceLength |-> 0, Pieces |-> <<>>, Length |-> 0]

MetadataInfo(name, hashes, length) ==
    [nil |-> FALSE, Name |-> name, PieceLength |-> PIECE_LENGTH,
     Pieces |-> hashes, Length |-> length]

\* len(MetadataInfo.Pieces): bytes.Join of 20-byte digests.
PiecesLen(md) == HashSize * Len(md.Pieces)

NoDiskFile == [exists |-> FALSE, size |-> 0, mtime |-> 0, ver |-> 0]
NoCache == [exists |-> FALSE, mtime |-> 0, hashes |-> <<>>]

\* &File{Name: name, FQFN: fqfn}: everything else has its zero value.
NewFile(name) ==
    [used |-> TRUE, Name |-> name, Size |-> 0, ModTime |-> 0, MetadataInfo |-> NilMetadata,
     SeedCommand |-> 0]

FreeObject ==
    [used |-> FALSE, Name |-> "", Size |-> 0, ModTime |-> 0, MetadataInfo |-> NilMetadata,
     SeedCommand |-> 0]

\* The File objects ever allocated: one per create event at most.
Objects == 1..MaxWrites

IdleWorker ==
    [pc |-> "idle", localfn |-> "", file |-> 0, info |-> [size |-> 0, mtime |-> 0],
     info2 |-> [size |-> 0, mtime |-> 0],
     dataSize |-> 0, bytesRead |-> 0, hashes |-> <<>>, use_cache |-> FALSE,
     mdinfo |-> NilMetadata]

IdleDispatcher == [pc |-> "recv", localfn |-> ""]

VARIABLES disk, cache, clock, writes, Files, heap, updates, metaChannel,
          dispatcher, worker, crashed, pubs

metaVars == <<disk, cache, clock, writes, Files, heap, updates, metaChannel,
              dispatcher, worker, crashed, pubs>>

\* "updateChannel <- ev.Name": the channels hold 1000 and 10000 names, more
\* than the events of a bounded run, so a send never blocks.
Notify(p) == Append(updates, p)

\* os.Stat of a path.
Stat(p) == [size |-> disk[p].size, mtime |-> disk[p].mtime]

(***************************************************************************)
(* The environment: somebody writes, touches or removes a served file.     *)
(***************************************************************************)
DiskWrite(p, sizes, budget) ==
    /\ ~crashed
    /\ writes < budget
    /\ \E s \in sizes :
          disk' = [disk EXCEPT ![p] = [exists |-> TRUE, size |-> s, mtime |-> clock,
                                       ver |-> writes + 1]]
    /\ writes' = writes + 1
    /\ updates' = Notify(p)
    /\ UNCHANGED <<cache, clock, Files, heap, metaChannel, dispatcher, worker,
                   crashed, pubs>>

\* The modification time changes, the content does not (touch, utimes).
DiskTouch(p) ==
    /\ ~crashed
    /\ writes < MaxWrites
    /\ disk[p].exists
    /\ \E m \in 1..clock :
          /\ m # disk[p].mtime
          /\ disk' = [disk EXCEPT ![p].mtime = m]
    /\ writes' = writes + 1
    /\ updates' = Notify(p)
    /\ UNCHANGED <<cache, clock, Files, heap, metaChannel, dispatcher, worker,
                   crashed, pubs>>

\* The file is unlinked.  A reader that has it open keeps reading the bytes
\* it had, so size and version stay in the record.
DiskRemove(p) ==
    /\ ~crashed
    /\ writes < MaxWrites
    /\ disk[p].exists
    /\ disk' = [disk EXCEPT ![p].exists = FALSE]
    /\ writes' = writes + 1
    /\ updates' = Notify(p)
    /\ UNCHANGED <<cache, clock, Files, heap, metaChannel, dispatcher, worker,
                   crashed, pubs>>

\* The wall clock that stamps files written from now on.
ClockTick ==
    /\ ~crashed
    /\ clock < MaxClock
    /\ clock' = clock + 1
    /\ UNCHANGED <<disk, cache, writes, Files, heap, updates, metaChannel,
                   dispatcher, worker, crashed, pubs>>

(***************************************************************************)
(* Watcher.updateChannelHandler: one event, under FilesLock.               *)
(***************************************************************************)
FreeObjects == {o \in Objects : ~heap[o].used}

\* "if isTracking && info == nil": the event of a tracked file that is gone.
IsDeletedNever(isTracking, exists) == FALSE

IsDeleted(isTracking, exists) == isTracking /\ ~exists

\* Watcher.Directory, character by character.
Directory == <<"/", "r">>

\* The path an event carries.  The event of a served file is named by the
\* file's local name; the other events are named by their path: the root
\* itself, a hidden file, a cache sidecar, a file elsewhere, and a file in a
\* directory whose name only begins like the root's.
Fqfn ==
    [e \in Paths |-> Directory \o <<"/", e>>]
    @@ ("/r" :> <<"/", "r">>)
    @@ ("/r/.h" :> <<"/", "r", "/", ".", "h">>)
    @@ ("/r/a.mdcache" :> <<"/", "r", "/", "a", ".", "m", "d", "c", "a", "c", "h", "e">>)
    @@ ("/o/a" :> <<"/", "o", "/", "a">>)
    @@ ("/rx/a" :> <<"/", "r", "x", "/", "a">>)

\* strings.HasPrefix and strings.HasSuffix.
HasPrefix(s, prefix) ==
    Len(s) >= Len(prefix) /\ SubSeq(s, 1, Len(prefix)) = prefix

HasSuffix(s, suffix) ==
    Len(s) >= Len(suffix) /\ SubSeq(s, Len(s) - Len(suffix) + 1, Len(s)) = suffix

\* filepath.Base of a path that does not end in a slash.
Base(fqfn) ==
    LET slashes == {i \in 1..Len(fqfn) : fqfn[i] = "/"}
        last == IF slashes = {} THEN 0
                ELSE CHOOSE i \in slashes : \A j \in slashes : j <= i
    IN  SubSeq(fqfn, last + 1, Len(fqfn))

\* "localfn := fqfn[len(self.Directory)+1:]"
LocalName(fqfn) == SubSeq(fqfn, Len(Directory) + 2, Len(fqfn))

\* The local names as the keys of the file table.
KeyOf ==
    [l \in {<<p>> : p \in Paths} |-> l[1]] @@ (<<"/", "a">> :> "/a")

\* "if fqfn == self.Directory { continue }"
IsDirectory(fqfn) == fqfn = Directory

\* "if !strings.HasPrefix(fqfn, self.Directory)": not in the watched dir.
IsOutsideNever(fqfn) == FALSE

IsOutside(fqfn) == ~HasPrefix(fqfn, Directory)

\* Hidden files and metadata cache files.
IsIgnoredNever(name) == FALSE

IsIgnored(name) ==
    \/ HasPrefix(name, <<".">>)
    \/ HasSuffix(name, <<".", "m", "d", "c", "a", "c", "h", "e">>)

updateChannelHandler ==
    /\ ~crashed
    /\ dispatcher.pc = "recv"
    /\ updates # <<>>
    /\ IF \/ IsDirectory(Fqfn[Head(updates)])
          \/ IsOutside(Fqfn[Head(updates)])
          \/ IsIgnored(Base(Fqfn[Head(updates)]))
       THEN /\ updates' = Tail(updates)
            /\ UNCHANGED <<Files, heap, pubs, dispatcher>>
       ELSE
       LET localfn == KeyOf[LocalName(Fqfn[Head(updates)])]
           isTracking == Files[localfn] # 0
           exists == disk[localfn].exists
       IN  /\ updates' = Tail(updates)
           /\ IF IsDeleted(isTracking, exists)
              THEN /\ Files' = [Files EXCEPT ![localfn] = 0]
                   /\ UNCHANGED <<heap, pubs, dispatcher>>
              ELSE IF exists /\ ~isTracking
              THEN /\ FreeObjects # {}
                   /\ LET o == CHOOSE x \in FreeObjects : \A y \in FreeObjects : x <= y
                      IN  /\ heap' = [heap EXCEPT ![o] = NewFile(localfn)]
                          /\ Files' = [Files EXCEPT ![localfn] = o]
                          /\ pubs' = [pubs EXCEPT ![o] = {<<0, 0, NilMetadata>>}]
                   /\ dispatcher' = [pc |-> "send", localfn |-> localfn]
              ELSE IF exists
              THEN /\ dispatcher' = [pc |-> "send", localfn |-> localfn]
                   /\ UNCHANGED <<Files, heap, pubs>>
              ELSE UNCHANGED <<Files, heap, pubs, dispatcher>>
    /\ UNCHANGED <<disk, cache, clock, writes, metaChannel, worker, crashed>>

\* "metaChannel <- localfn", after FilesLock is released.
requestMetadata ==
    /\ ~crashed
    /\ dispatcher.pc = "send"
    /\ metaChannel' = Append(metaChannel, dispatcher.localfn)
    /\ dispatcher' = IdleDispatcher
    /\ UNCHANGED <<disk, cache, clock, writes, Files, heap, updates, worker,
                   crashed, pubs>>

(***************************************************************************)
(* Watcher.metadataGenerator, the single consumer of metaChannel.          *)
(***************************************************************************)
\* "file.MetadataInfo != nil && file.ModTime == info.ModTime() &&
\*  file.Size == info.Size()": nothing to do for this file.
UpToDate(file, info) ==
    ~file.MetadataInfo.nil /\ file.ModTime = info.mtime /\ file.Size = info.size

\* Receive a name, look the File up, stat it, skip it when it is up to date.
metadataGeneratorTake ==
    /\ ~crashed
    /\ worker.pc = "idle"
    /\ metaChannel # <<>>
    /\ metaChannel' = Tail(metaChannel)
    /\ LET localfn == Head(metaChannel)
           file == Files[localfn]
       IN  IF file = 0 \/ ~disk[localfn].exists \/ UpToDate(heap[file], Stat(localfn))
           THEN worker' = IdleWorker
           ELSE worker' = [IdleWorker EXCEPT !.pc = "generate", !.localfn = localfn,
                                             !.file = file, !.info = Stat(localfn)]
    /\ UNCHANGED <<disk, cache, clock, writes, Files, heap, updates, dispatcher,
                   crashed, pubs>>

\* The cache test of GenerateMetadataInfo: the cache file exists, is not older
\* than the file, and has the expected length.
CacheUsable(c, d) ==
    /\ c.exists
    /\ ~(d.mtime > c.mtime)
    /\ HashSize * Len(c.hashes) = HashCount(d.size) * HashSize

\* GenerateMetadataInfo up to the choice between cache and hashing.  With a
\* usable cache the hashes are appended to a slice declared inside the if
\* block; the function's own "hashes" stays nil and indexing hashes[0] for
\* the debug line panics, which ends the process.
GenerateMetadataInfoStart ==
    /\ ~crashed
    /\ worker.pc = "generate"
    /\ LET p == worker.localfn
           d == disk[p]
       IN  IF ~d.exists
           THEN worker' = IdleWorker /\ UNCHANGED crashed
           ELSE IF d.size = 0
           THEN /\ worker' = [worker EXCEPT !.pc = "stat2", !.mdinfo = NilMetadata]
                /\ UNCHANGED crashed
           ELSE IF CacheUsable(cache[p], d)
           THEN /\ worker' = [worker EXCEPT !.pc = "dead", !.use_cache = TRUE,
                                            !.dataSize = d.size]
                /\ crashed' = TRUE
           ELSE /\ worker' = [worker EXCEPT !.pc = "hash", !.dataSize = d.size,
                                            !.bytesRead = 0, !.hashes = <<>>]
                /\ UNCHANGED crashed
    /\ UNCHANGED <<disk, cache, clock, writes, Files, heap, updates, metaChannel,
                   dispatcher, pubs>>

\* makeHashes: how many bytes the next ReadAtLeast must deliver, at most a
\* piece ("if bytesToRead > PIECE_LENGTH { bytesToRead = PIECE_LENGTH }").
BytesToReadUncapped(dataSize, bytesRead) == dataSize - bytesRead

BytesToRead(dataSize, bytesRead) == Min(dataSize - bytesRead, PIECE_LENGTH)

\* The bytes of the file past the read offset.
Available == disk[worker.localfn].size - worker.bytesRead

\* io.ReadAtLeast(data, buf, min) into a buffer of PIECE_LENGTH bytes returns
\* at least min bytes and at most what is there and fits.
ReadCounts(min, avail) == {min, Min(avail, PIECE_LENGTH)}

\* io.ReadAtLeast on a source with avail bytes left: (0, EOF) when nothing is
\* left, ErrUnexpectedEOF when less than min is left, else a count.
ReadAtLeastLenient(min, avail) ==
    IF avail <= 0 THEN {[n |-> 0, err |-> "EOF"]}
    ELSE {[n |-> k, err |-> None] : k \in {Min(min, avail), Min(avail, PIECE_LENGTH)}}

ReadAtLeast(min, avail) ==
    IF avail <= 0 THEN {[n |-> 0, err |-> "EOF"]}
    ELSE IF avail < min THEN {[n |-> avail, err |-> "ErrUnexpectedEOF"]}
    ELSE {[n |-> k, err |-> None] : k \in ReadCounts(min, avail)}

\* The read of the current iteration of the makeHashes loop.
NextRead == ReadAtLeast(BytesToRead(worker.dataSize, worker.bytesRead), Available)

\* One iteration of the makeHashes loop that hashes a chunk.
makeHashesRead ==
    /\ ~crashed
    /\ worker.pc = "hash"
    /\ worker.dataSize - worker.bytesRead > 0
    /\ \E r \in NextRead :
          /\ r.err = None
          /\ worker' = [worker EXCEPT
                          !.hashes = Append(@, Digest(disk[worker.localfn].ver,
                                                      worker.bytesRead, r.n)),
                          !.bytesRead = @ + r.n]
    /\ UNCHANGED <<disk, cache, clock, writes, Files, heap, updates, metaChannel,
                   dispatcher, crashed, pubs>>

\* "else if err != nil { return nil, 0, errors.New(...) }"
ReadFails ==
    /\ worker.dataSize - worker.bytesRead > 0
    /\ \E r \in NextRead : r.err # None /\ ~(r.n = 0 /\ r.err = "EOF")

\* The loop is left by a break or by the return of (nil, 0, nil).
LoopEnds ==
    \/ worker.dataSize - worker.bytesRead <= 0
    \/ \E r \in NextRead : r.n = 0 /\ r.err = "EOF"

\* What makeHashes returns when the loop ends: nothing when more was read
\* than declared, else the digests and the byte count.
makeHashesResult ==
    IF worker.dataSize - worker.bytesRead < 0
    THEN [hashes |-> <<>>, bytesRead |-> 0]
    ELSE [hashes |-> worker.hashes, bytesRead |-> worker.bytesRead]

\* ReadAtLeast finds some bytes but fewer than asked for: makeHashes returns
\* an error and GenerateMetadataInfo calls logfatal.
makeHashesError ==
    /\ ~crashed
    /\ worker.pc = "hash"
    /\ ReadFails
    /\ worker' = [worker EXCEPT !.pc = "dead"]
    /\ crashed' = TRUE
    /\ UNCHANGED <<disk, cache, clock, writes, Files, heap, updates, metaChannel,
                   dispatcher, pubs>>

\* makeHashes called on its own, as the tests do: its return without error,
\* and its return with an error.
makeHashesReturn ==
    /\ ~crashed
    /\ worker.pc = "hash"
    /\ LoopEnds
    /\ worker' = [worker EXCEPT !.pc = "returned",
                                !.hashes = makeHashesResult.hashes,
                                !.bytesRead = makeHashesResult.bytesRead]
    /\ UNCHANGED <<disk, cache, clock, writes, Files, heap, updates, metaChannel,
                   dispatcher, crashed, pubs>>

makeHashesReturnError ==
    /\ ~crashed
    /\ worker.pc = "hash"
    /\ ReadFails
    /\ worker' = [worker EXCEPT !.pc = "error", !.hashes = <<>>, !.bytesRead = 0]
    /\ UNCHANGED <<disk, cache, clock, writes, Files, heap, updates, metaChannel,
                   dispatcher, crashed, pubs>>

\* "if int64(bytesRead) != info.Size() { logfatal(...) }"
SizeMatches(bytesRead, size) == bytesRead = size

\* ioutil.WriteFile of the cache: it succeeds, or fails before touching the
\* file, or fails after truncating it.  A failure is only logged.
CacheWrites(c, hashes) ==
    {[exists |-> TRUE, mtime |-> clock, hashes |-> hashes],
     [exists |-> TRUE, mtime |-> clock, hashes |-> <<>>],
     c}

\* The makeHashes loop ends without an error: everything was read, or the
\* source ran dry (n == 0 && EOF), or more was read than declared (nil, 0).
\* GenerateMetadataInfo then checks the byte count, writes the cache and
\* builds the MetadataInfo.
GenerateMetadataInfoFinish ==
    /\ ~crashed
    /\ worker.pc = "hash"
    /\ LoopEnds
    /\ LET hashes == makeHashesResult.hashes
           bytesRead == makeHashesResult.bytesRead
           p == worker.localfn
       IN  IF ~SizeMatches(bytesRead, worker.dataSize)
           THEN /\ worker' = [worker EXCEPT !.pc = "dead"]
                /\ crashed' = TRUE
                /\ UNCHANGED cache
           ELSE /\ \E c \in CacheWrites(cache[p], hashes) :
                      cache' = [cache EXCEPT ![p] = c]
                /\ IF hashes = <<>>
                   THEN /\ worker' = [worker EXCEPT !.pc = "dead"]
                        /\ crashed' = TRUE
                   ELSE /\ worker' = [worker EXCEPT
                                        !.pc = "stat2",
                                        !.mdinfo = MetadataInfo(p, hashes, worker.dataSize)]
                        /\ UNCHANGED crashed
    /\ UNCHANGED <<disk, clock, writes, Files, heap, updates, metaChannel,
                   dispatcher, pubs>>

\* "info.Size() != info2.Size() || info.ModTime() != info2.ModTime()"
FileChangedSizeOnly(info, info2) == info.size # info2.size

FileChanged(info, info2) == info.size # info2.size \/ info.mtime # info2.mtime

\* The second stat.  A file that is gone or changed drops the result; nothing
\* is sent to metaChannel.  Otherwise "file.Size = info.Size()".
metadataGeneratorCheck ==
    /\ ~crashed
    /\ worker.pc = "stat2"
    /\ LET p == worker.localfn
           o == worker.file
       IN  IF ~disk[p].exists \/ FileChanged(worker.info, Stat(p))
           THEN /\ worker' = IdleWorker
                /\ UNCHANGED <<heap, pubs>>
           ELSE /\ heap' = [heap EXCEPT ![o].Size = worker.info.size]
                /\ pubs' = [pubs EXCEPT ![o] = @ \cup {<<worker.info.size,
                                                        worker.info.mtime,
                                                        worker.mdinfo>>}]
                /\ worker' = [worker EXCEPT !.pc = "setModTime", !.info2 = Stat(p)]
    /\ UNCHANGED <<disk, cache, clock, writes, Files, updates, metaChannel,
                   dispatcher, crashed>>

\* "file.ModTime = info.ModTime()", outside file.Lock like the line before.
metadataGeneratorSetModTime ==
    /\ ~crashed
    /\ worker.pc = "setModTime"
    /\ heap' = [heap EXCEPT ![worker.file].ModTime = worker.info.mtime]
    /\ worker' = [worker EXCEPT !.pc = "setMetadata"]
    /\ UNCHANGED <<disk, cache, clock, writes, Files, updates, metaChannel,
                   dispatcher, crashed, pubs>>

\* "file.Lock.Lock(); file.MetadataInfo = mdinfo; file.Lock.Unlock()"
metadataGeneratorSetMetadata ==
    /\ ~crashed
    /\ worker.pc = "setMetadata"
    /\ heap' = [heap EXCEPT ![worker.file].MetadataInfo = worker.mdinfo]
    /\ worker' = IdleWorker
    /\ UNCHANGED <<disk, cache, clock, writes, Files, updates, metaChannel,
                   dispatcher, crashed, pubs>>

(***************************************************************************)
(* The tracker's /serve and /serve_last_updated handlers and the seeds.    *)
(***************************************************************************)
MaxHandlers == 2
MaxSeeds == 2

\* Concurrent HTTP handler goroutines, and startSeed's detached goroutines.
Handlers == 1..MaxHandlers
Seeds == 1..MaxSeeds

\* The default watcher name: the base name of the served root.
WatcherNames == {"root"}

\* The request URI split at the first "?": <<>> when there is no query.
ServeRequests ==
    {[endpoint |-> "serve", query |-> <<"a">>],
     [endpoint |-> "serve", query |-> <<"zz">>],
     [endpoint |-> "serve", query |-> <<>>],
     [endpoint |-> "serve_last_updated", query |-> <<>>],
     [endpoint |-> "serve_last_updated", query |-> <<"root">>],
     [endpoint |-> "serve_last_updated", query |-> <<"nope">>]}

\* "slept" records that the handler found no metadata and slept.
IdleHandler == [pc |-> "idle", file |-> 0, md |-> NilMetadata, slept |-> FALSE]

FreeSeed == [pc |-> "free", file |-> 0, md |-> NilMetadata, ran |-> FALSE]

\* The last response written: its body, the File it is about and, for a
\* torrent document, the info dictionary.
NoServe == [body |-> None, file |-> 0, info |-> NilMetadata]

VARIABLES handlers, seeds, seedStartLock, tmpfiles, lastServe

serveVars == <<handlers, seeds, seedStartLock, tmpfiles, lastServe>>

\* Watcher.GetFile: the table entry, read under FilesLock.
GetFile(name) == IF name \in DOMAIN Files THEN Files[name] ELSE 0

\* Watcher.GetFiles: every File of the table.
GetFiles == {Files[p] : p \in {q \in DOMAIN Files : Files[q] # 0}}

\* time.Time.Before and time.Time.After.
Before(t, u) == t < u

After(t, u) == t > u

\* The loop of findLastUpdatedFile over the files still to visit, with
\* last_updated so far: files without metadata are skipped, a file replaces
\* last_updated when its ModTime is after it.  GetFiles ranges over a Go map,
\* so any order of visit can happen: the result is a set.
RECURSIVE ScanFiles(_, _)
ScanFiles(left, last_updated) ==
    IF left = {} THEN {last_updated}
    ELSE UNION {ScanFiles(left \ {f},
                          IF heap[f].MetadataInfo.nil THEN last_updated
                          ELSE IF last_updated = 0
                                  \/ After(heap[f].ModTime, heap[last_updated].ModTime)
                          THEN f
                          ELSE last_updated) : f \in left}

\* Tracker.findLastUpdatedFile over the one watcher; 0 is the nil File.
findLastUpdatedFile == ScanFiles(GetFiles, 0)

\* handleServeLastUpdated up to the call of serveFile: the error body, or the
\* File handed to serveFile.
handleServeLastUpdated(r) ==
    IF r.query # <<>> /\ r.query[1] \notin WatcherNames
    THEN {[body |-> "invalid watcher name", file |-> 0]}
    ELSE {[body |-> None, file |-> f] : f \in findLastUpdatedFile}

\* What a handler writes to the client.
Respond(h, body, info) ==
    /\ lastServe' = [body |-> body, file |-> handlers[h].file, info |-> info]
    /\ handlers' = [handlers EXCEPT ![h] = IdleHandler]

\* handleServe and handleServeLastUpdated up to the call of serveFile, and
\* serveFile's nil test.
handleServe(h, requests) ==
    /\ ~crashed
    /\ handlers[h].pc = "idle"
    /\ \E r \in requests :
          LET reply(body) ==
                  /\ lastServe' = [body |-> body, file |-> 0, info |-> NilMetadata]
                  /\ UNCHANGED handlers
              serveFile(file) ==
                  IF file = 0
                  THEN reply("file not found")
                  ELSE /\ handlers' = [handlers EXCEPT
                                         ![h] = [pc |-> "wait", file |-> file,
                                                 md |-> NilMetadata,
                                                 slept |-> FALSE]]
                       /\ UNCHANGED lastServe
          IN  IF r.endpoint = "serve"
              THEN IF r.query = <<>>
                   THEN reply("invalid request")
                   ELSE serveFile(GetFile(r.query[1]))
              ELSE \E out \in handleServeLastUpdated(r) :
                       IF out.body # None THEN reply(out.body)
                       ELSE serveFile(out.file)
    /\ UNCHANGED <<seeds, seedStartLock, tmpfiles, heap, crashed>>

\* serveFile's loop: "if file.MetadataInfo == nil { Sleep; continue }".  The
\* handler leaves the loop once it reads a metadata that is not nil; a sleep
\* after the first changes nothing.
serveFileWait(h) ==
    /\ ~crashed
    /\ handlers[h].pc = "wait"
    /\ IF heap[handlers[h].file].MetadataInfo.nil
       THEN /\ ~handlers[h].slept
            /\ handlers' = [handlers EXCEPT ![h].slept = TRUE]
       ELSE handlers' = [handlers EXCEPT ![h].pc = "deref"]
    /\ UNCHANGED <<seeds, seedStartLock, tmpfiles, lastServe, heap, crashed>>

\* "Info: *file.MetadataInfo": a second, unlocked read of the field.  If the
\* worker stored nil in between, the dereference panics; net/http recovers a
\* handler's panic and drops the connection without a response.
serveFileDeref(h) ==
    /\ ~crashed
    /\ handlers[h].pc = "deref"
    /\ IF heap[handlers[h].file].MetadataInfo.nil
       THEN Respond(h, "aborted", NilMetadata)
       ELSE /\ handlers' = [handlers EXCEPT
                              ![h].pc = "checkSeed",
                              ![h].md = heap[handlers[h].file].MetadataInfo]
            /\ UNCHANGED lastServe
    /\ UNCHANGED <<seeds, seedStartLock, tmpfiles, heap, crashed>>

\* "if file.SeedCommand == nil { self.startSeed(file, &md) }", read without
\* the lock.
serveFileCheckSeed(h) ==
    /\ ~crashed
    /\ handlers[h].pc = "checkSeed"
    /\ handlers' = [handlers EXCEPT
                      ![h].pc = IF heap[handlers[h].file].SeedCommand = 0
                                THEN "startSeed" ELSE "respond"]
    /\ UNCHANGED <<seeds, seedStartLock, tmpfiles, lastServe, heap, crashed>>

\* startSeed: "self.seedStartLock.Lock()".  A handler holds the lock as h, a
\* seed goroutine as -g.
startSeedLock(h) ==
    /\ ~crashed
    /\ handlers[h].pc = "startSeed"
    /\ seedStartLock = 0
    /\ seedStartLock' = h
    /\ handlers' = [handlers EXCEPT ![h].pc = "locked"]
    /\ UNCHANGED <<seeds, tmpfiles, lastServe, heap, crashed>>

\* "if file.SeedCommand != nil { Unlock; return }", under the lock.
SeedNeverRunning(file) == FALSE

SeedRunning(file) == file.SeedCommand # 0

\* What can happen between TempFile and exec.Command.
SeedOutcomes == {"ok", "tempfile", "bencode", "fsync"}

FreeSeeds == {g \in Seeds : seeds[g].pc = "free"}

\* startSeed under the lock: the re-check, the temporary torrent file, the
\* exec.Command stored in file.SeedCommand, the unlock and the go statement.
\* A failed TempFile is fatal; a failed Marshal or Sync unlocks and returns
\* and leaves the temporary file behind.
startSeed(h, outcomes) ==
    /\ ~crashed
    /\ handlers[h].pc = "locked"
    /\ LET o == handlers[h].file
       IN  IF SeedRunning(heap[o])
           THEN /\ seedStartLock' = 0
                /\ handlers' = [handlers EXCEPT ![h].pc = "respond"]
                /\ UNCHANGED <<seeds, tmpfiles, heap, crashed>>
           ELSE \E outcome \in outcomes :
                   IF outcome = "tempfile"
                   THEN /\ crashed' = TRUE
                        /\ UNCHANGED <<seeds, tmpfiles, heap, seedStartLock, handlers>>
                   ELSE IF outcome # "ok"
                   THEN /\ tmpfiles' = tmpfiles \cup {<<"failed", o>>}
                        /\ seedStartLock' = 0
                        /\ handlers' = [handlers EXCEPT ![h].pc = "respond"]
                        /\ UNCHANGED <<seeds, heap, crashed>>
                   ELSE /\ FreeSeeds # {}
                        /\ LET g == CHOOSE x \in FreeSeeds : \A y \in FreeSeeds : x <= y
                           IN  /\ seeds' = [seeds EXCEPT
                                              ![g] = [pc |-> "start", file |-> o,
                                                      md |-> handlers[h].md,
                                                      ran |-> FALSE]]
                               /\ tmpfiles' = tmpfiles \cup {<<"seed", g>>}
                               /\ heap' = [heap EXCEPT ![o].SeedCommand = g]
                        /\ seedStartLock' = 0
                        /\ handlers' = [handlers EXCEPT ![h].pc = "respond"]
                        /\ UNCHANGED crashed
    /\ UNCHANGED lastServe

\* The goroutine's "file.SeedCommand.Run()": it starts the command the field
\* holds now.  A nil field panics; a command that was started already makes
\* Run return at once.
seedRun(g) ==
    /\ ~crashed
    /\ seeds[g].pc = "start"
    /\ LET cmd == heap[seeds[g].file].SeedCommand
       IN  IF cmd = 0
           THEN crashed' = TRUE /\ UNCHANGED seeds
           ELSE IF seeds[cmd].ran
           THEN seeds' = [seeds EXCEPT ![g].pc = "cleanup"] /\ UNCHANGED crashed
           ELSE /\ seeds' = [[seeds EXCEPT ![cmd].ran = TRUE] EXCEPT ![g].pc = "running"]
                /\ UNCHANGED crashed
    /\ UNCHANGED <<handlers, seedStartLock, tmpfiles, lastServe, heap>>

\* The seed child exits (after its four hours, or earlier): Run returns.
seedExit(g) ==
    /\ ~crashed
    /\ seeds[g].pc = "running"
    /\ seeds' = [seeds EXCEPT ![g].pc = "cleanup"]
    /\ UNCHANGED <<handlers, seedStartLock, tmpfiles, lastServe, heap, crashed>>

\* "tmp.Close(); os.Remove(tmp.Name())"
seedCleanup(g) ==
    /\ ~crashed
    /\ seeds[g].pc = "cleanup"
    /\ tmpfiles' = tmpfiles \ {<<"seed", g>>}
    /\ seeds' = [seeds EXCEPT ![g].pc = "lock"]
    /\ UNCHANGED <<handlers, seedStartLock, lastServe, heap, crashed>>

\* "self.seedStartLock.Lock()" in the goroutine.
seedLock(g) ==
    /\ ~crashed
    /\ seeds[g].pc = "lock"
    /\ seedStartLock = 0
    /\ seedStartLock' = -g
    /\ seeds' = [seeds EXCEPT ![g].pc = "clear"]
    /\ UNCHANGED <<handlers, tmpfiles, lastServe, heap, crashed>>

\* "file.SeedCommand = nil; self.seedStartLock.Unlock()": the goroutine ends.
seedClear(g) ==
    /\ ~crashed
    /\ seeds[g].pc = "clear"
    /\ heap' = [heap EXCEPT ![seeds[g].file].SeedCommand = 0]
    /\ seedStartLock' = 0
    /\ seeds' = [seeds EXCEPT ![g] = FreeSeed]
    /\ UNCHANGED <<handlers, tmpfiles, lastServe, crashed>>

\* "bencode.Marshal(w, md)": the torrent document goes to the client.
serveFileRespond(h) ==
    /\ ~crashed
    /\ handlers[h].pc = "respond"
    /\ Respond(h, "torrent", handlers[h].md)
    /\ UNCHANGED <<seeds, seedStartLock, tmpfiles, heap, crashed>>

(***************************************************************************)
(* The Distributor: whoever calls Start or Run and then Close, the         *)
(* goroutine blocked in Wait, the watcher's watch goroutine and the HTTP   *)
(* server's listener.                                                      *)
(***************************************************************************)
VARIABLES mode, closer, waiter, watch, listening

\* The events fsnotify holds for the watch goroutine (Watcher.Events), and the
\* holder of Watcher.FilesLock ("free" when nobody holds it).
VARIABLES pending, FilesLock

distVars == <<mode, closer, waiter, watch, listening, pending, FilesLock>>

\* A distributor started with Run whose watcher has finished its first walk.
Running ==
    /\ mode = "Run"
    /\ closer = "started"
    /\ waiter = "wait"
    /\ watch = "loop"
    /\ listening = TRUE
    /\ pending = <<>>
    /\ FilesLock = "free"

\* startTracker: no request in flight, no seed, the lock free.
InitHandlers ==
    /\ handlers = [h \in Handlers |-> IdleHandler]
    /\ seeds = [g \in Seeds |-> FreeSeed]
    /\ seedStartLock = 0
    /\ tmpfiles = {}
    /\ lastServe = NoServe

InitServe == InitHandlers /\ Running

\* The steps of the handlers in hs and of the seed goroutines.  Only startSeed
\* and seedClear write a File (its SeedCommand); only a fatal error or a panic
\* outside a handler ends the process.
NextHandlers(hs) ==
    \/ (\E h \in hs : handleServe(h, ServeRequests))
    \/ (\E h \in hs : serveFileWait(h))
    \/ (\E h \in hs : serveFileDeref(h))
    \/ (\E h \in hs : serveFileCheckSeed(h))
    \/ (\E h \in hs : startSeedLock(h))
    \/ (\E h \in hs : startSeed(h, SeedOutcomes))
    \/ (\E g \in Seeds : seedRun(g))
    \/ (\E g \in Seeds : seedExit(g))
    \/ (\E g \in Seeds : seedCleanup(g))
    \/ (\E g \in Seeds : seedLock(g))
    \/ (\E g \in Seeds : seedClear(g))
    \/ (\E h \in hs : serveFileRespond(h))

\* StartWatcher: an empty file table, both channels empty, nothing served yet.
InitMeta ==
    /\ disk = [p \in Paths |-> NoDiskFile]
    /\ cache = [p \in Paths |-> NoCache]
    /\ clock = 1
    /\ writes = 0
    /\ Files = [p \in Paths |-> 0]
    /\ heap = [o \in Objects |-> FreeObject]
    /\ updates = <<>>
    /\ metaChannel = <<>>
    /\ dispatcher = IdleDispatcher
    /\ worker = IdleWorker
    /\ crashed = FALSE
    /\ pubs = [o \in Objects |-> {}]

vars == <<mode, closer, waiter, watch, listening, pending, FilesLock,
          PeerList, PeerSeen, now, lastAnnounce, announcers, peerListLock, disk, cache, clock, writes, Files,
          heap, updates, metaChannel, dispatcher, worker, crashed, pubs, handlers,
          seeds, seedStartLock, tmpfiles, lastServe>>

\* What the handlers and the seed goroutines never touch.
watcherVars == <<disk, cache, clock, writes, Files, updates, metaChannel, dispatcher,
                 worker, pubs>>

Init == InitReg /\ InitMeta /\ InitServe

(***************************************************************************)
(* The announce handler on its own.                                        *)
(***************************************************************************)
NextReg ==
    \/ handleAnnounce(Requests) /\ UNCHANGED <<metaVars, serveVars, lockVars, distVars>>
    \/ Tick /\ UNCHANGED <<metaVars, serveVars, lockVars, distVars>>

SpecReg == Init /\ [][NextReg]_vars

(***************************************************************************)
(* The announce handler facing requests with missing, malformed and        *)
(* out-of-range parameters.                                                *)
(***************************************************************************)
NextArgs ==
    handleAnnounce(ArgRequests) /\ UNCHANGED <<metaVars, serveVars, lockVars, distVars>>

SpecArgs == Init /\ [][NextArgs]_vars

(***************************************************************************)
(* Announce requests handled concurrently.                                 *)
(***************************************************************************)
\* Announces with and without event=stopped, from either host, and the
\* requests parsePeer rejects.
LockRequests ==
    [peer_id : {<<p>> : p \in PeerIds}, port : {<<t>> : t \in PortTexts},
     ip : {<<>>}, remote : Ips, info_hash : {<<h>> : h \in InfoHashes},
     event : Opt(Events), numwant : {<<>>}]
    \cup BadRequests

NextLock ==
    \/ (\E h \in Announcers : announceParse(h, LockRequests)) /\ UNCHANGED <<metaVars, serveVars, distVars>>
    \/ (\E h \in Announcers : announceLock(h)) /\ UNCHANGED <<metaVars, serveVars, distVars>>
    \/ (\E h \in Announcers : announceUpdate(h)) /\ UNCHANGED <<metaVars, serveVars, distVars>>
    \/ (\E h \in Announcers : announceRespond(h)) /\ UNCHANGED <<metaVars, serveVars, distVars>>

SpecLock == Init /\ [][NextLock]_vars

(***************************************************************************)
(* The watcher with its worker, and whoever writes the served directory.   *)
(***************************************************************************)
NextWatcher ==
    \/ updateChannelHandler
    \/ requestMetadata
    \/ metadataGeneratorTake
    \/ GenerateMetadataInfoStart
    \/ makeHashesRead
    \/ makeHashesError
    \/ GenerateMetadataInfoFinish
    \/ metadataGeneratorCheck
    \/ metadataGeneratorSetModTime
    \/ metadataGeneratorSetMetadata

NextMeta ==
    \/ (\E p \in Paths : DiskWrite(p, Sizes, MaxWrites)) /\ UNCHANGED <<regVars, serveVars, distVars>>
    \/ (\E p \in Paths : DiskTouch(p)) /\ UNCHANGED <<regVars, serveVars, distVars>>
    \/ (\E p \in Paths : DiskRemove(p)) /\ UNCHANGED <<regVars, serveVars, distVars>>
    \/ ClockTick /\ UNCHANGED <<regVars, serveVars, distVars>>
    \/ NextWatcher /\ UNCHANGED <<regVars, serveVars, distVars>>

SpecMeta == Init /\ [][NextMeta]_vars

(***************************************************************************)
(* The watcher and one request at a time.                                  *)
(***************************************************************************)
ServeSizes == {0, 1}

\* One more rewrite than elsewhere: a file can leave a state and come back.
ServeWrites == MaxWrites + 1

NextServe ==
    \/ (\E p \in Paths : DiskWrite(p, ServeSizes, ServeWrites)) /\ UNCHANGED <<regVars, serveVars, distVars>>
    \/ NextWatcher /\ UNCHANGED <<regVars, serveVars, distVars>>
    \/ NextHandlers({1}) /\ UNCHANGED <<regVars, watcherVars, distVars>>

SpecServe == Init /\ [][NextServe]_vars

(***************************************************************************)
(* makeHashes on its own, on a source that does not change.                *)
(***************************************************************************)
MaxPieces == 2

\* Lengths around the piece boundaries.
HashSizes ==
    UNION {{k * PIECE_LENGTH, k * PIECE_LENGTH + 1} : k \in 0..MaxPieces}
        \cup {PIECE_LENGTH - 1}

\* makeHashes(data, dataSize): a source of any of the lengths, declared with
\* any of them.
InitHash ==
    /\ InitReg
    /\ InitServe
    /\ \E size \in HashSizes :
          disk = [p \in Paths |-> [exists |-> TRUE, size |-> size, mtime |-> 1, ver |-> 1]]
    /\ \E dataSize \in HashSizes :
          worker = [IdleWorker EXCEPT !.pc = "hash", !.localfn = "a",
                                      !.dataSize = dataSize]
    /\ cache = [p \in Paths |-> NoCache]
    /\ clock = 1
    /\ writes = 1
    /\ Files = [p \in Paths |-> 0]
    /\ heap = [o \in Objects |-> FreeObject]
    /\ updates = <<>>
    /\ metaChannel = <<>>
    /\ dispatcher = IdleDispatcher
    /\ crashed = FALSE
    /\ pubs = [o \in Objects |-> {}]

NextHash ==
    \/ makeHashesRead /\ UNCHANGED <<regVars, serveVars, distVars>>
    \/ makeHashesReturn /\ UNCHANGED <<regVars, serveVars, distVars>>
    \/ makeHashesReturnError /\ UNCHANGED <<regVars, serveVars, distVars>>

SpecHash == InitHash /\ [][NextHash]_vars

(***************************************************************************)
(* Concurrent requests for a file whose metadata has been published.       *)
(***************************************************************************)
\* The watcher after one file of one byte was written, hashed and published,
\* with nothing left in its queues.
PublishedOnce ==
    /\ disk = [p \in Paths |-> [exists |-> TRUE, size |-> 1, mtime |-> 1, ver |-> 1]]
    /\ cache = [p \in Paths |-> [exists |-> TRUE, mtime |-> 1,
                                 hashes |-> ContentHashes(1, 1)]]
    /\ clock = 1
    /\ writes = 1
    /\ Files = [p \in Paths |-> 1]
    /\ heap = [o \in Objects |->
                 IF o = 1
                 THEN [NewFile("a") EXCEPT
                         !.Size = 1, !.ModTime = 1,
                         !.MetadataInfo = MetadataInfo("a", ContentHashes(1, 1), 1)]
                 ELSE FreeObject]
    /\ updates = <<>>
    /\ metaChannel = <<>>
    /\ dispatcher = IdleDispatcher
    /\ worker = IdleWorker
    /\ crashed = FALSE
    /\ pubs = [o \in Objects |->
                 IF o = 1
                 THEN {<<0, 0, NilMetadata>>,
                       <<1, 1, MetadataInfo("a", ContentHashes(1, 1), 1)>>}
                 ELSE {}]

InitSeed == InitReg /\ PublishedOnce /\ InitServe

NextSeed == NextHandlers(Handlers) /\ UNCHANGED <<regVars, watcherVars, distVars>>

SpecSeed == InitSeed /\ [][NextSeed]_vars

(***************************************************************************)
(* Requests over a table of several files that no longer changes.          *)
(***************************************************************************)
TableNames == <<"a", "b">>

\* The File objects of the table.
Tabled == DOMAIN TableNames

\* A watcher that tracks two files, each either waiting for its metadata
\* (never published) or published once at some time.
InitLast ==
    /\ InitReg
    /\ InitServe
    /\ \E mt \in [Tabled -> 0..MaxClock] :
          /\ Files = [p \in {TableNames[o] : o \in Tabled} |->
                        CHOOSE o \in Tabled : TableNames[o] = p]
          /\ heap = [o \in Objects |->
                       IF o \notin Tabled THEN FreeObject
                       ELSE IF mt[o] = 0 THEN NewFile(TableNames[o])
                       ELSE [NewFile(TableNames[o]) EXCEPT
                               !.Size = 1, !.ModTime = mt[o],
                               !.MetadataInfo =
                                   MetadataInfo(TableNames[o], ContentHashes(o, 1), 1)]]
          /\ disk = [p \in {TableNames[o] : o \in Tabled} |->
                       LET o == CHOOSE x \in Tabled : TableNames[x] = p
                       IN  [exists |-> TRUE, size |-> 1,
                            mtime |-> IF mt[o] = 0 THEN MaxClock ELSE mt[o],
                            ver |-> o]]
          /\ cache = [p \in {TableNames[o] : o \in Tabled} |->
                        LET o == CHOOSE x \in Tabled : TableNames[x] = p
                        IN  IF mt[o] = 0 THEN NoCache
                            ELSE [exists |-> TRUE, mtime |-> mt[o],
                                  hashes |-> ContentHashes(o, 1)]]
          /\ pubs = [o \in Objects |->
                       IF o \notin Tabled THEN {}
                       ELSE {<<0, 0, NilMetadata>>} \cup
                            IF mt[o] = 0 THEN {}
                            ELSE {<<1, mt[o],
                                   MetadataInfo(TableNames[o], ContentHashes(o, 1), 1)>>}]
    /\ clock = MaxClock
    /\ writes = Len(TableNames)
    /\ updates = <<>>
    /\ metaChannel = <<>>
    /\ dispatcher = IdleDispatcher
    /\ worker = IdleWorker
    /\ crashed = FALSE

NextLast == NextHandlers({1}) /\ UNCHANGED <<regVars, watcherVars, distVars>>

SpecLast == InitLast /\ [][NextLast]_vars

(***************************************************************************)
(* The life of a Distributor, from NewDistributor to Close.                *)
(***************************************************************************)
\* How the application starts it: "go distributor.Run()", or Start alone.
Modes == {"Run", "Start"}

\* Start, and for Run the Wait that follows it in the Run goroutine:
\* StartWatcher launches the watch goroutine, startTracker the HTTP server.
Start(m) ==
    /\ closer = "new"
    /\ mode' = m
    /\ watch' = "scan"
    /\ listening' = TRUE
    /\ waiter' = IF m = "Run" THEN "wait" ELSE "none"
    /\ closer' = "started"
    /\ UNCHANGED <<pending, FilesLock>>

\* watch's call of walkAndWatch: every file found is sent to updateChannel.
\* Only afterwards does watch enter its select loop.
RECURSIVE Found(_)
Found(ps) ==
    IF ps = {} THEN <<>>
    ELSE LET p == CHOOSE x \in ps : TRUE IN <<p>> \o Found(ps \ {p})

walkAndWatch ==
    /\ ~crashed
    /\ watch = "scan"
    /\ updates' = updates \o Found({p \in Paths : disk[p].exists})
    /\ watch' = "loop"
    /\ UNCHANGED <<mode, closer, waiter, listening, pending, FilesLock>>
    /\ UNCHANGED <<disk, cache, clock, writes, Files, heap, metaChannel, dispatcher,
                   worker, crashed, pubs>>

\* "case ev := <-self.Watcher.Events: updateChannel <- ev.Name", for a file
\* that is written while the loop runs.
watchEvent(p) ==
    /\ watch = "loop"
    /\ DiskWrite(p, {1}, MaxWrites)
    /\ UNCHANGED distVars

\* Close is called: it is now at "w.QuitChannel <- true", a send on a
\* channel without buffer.
Close ==
    /\ ~crashed
    /\ closer = "started"
    /\ closer' = "watchers"
    /\ UNCHANGED <<mode, waiter, watch, listening, pending, FilesLock>>

\* The send meets "case _ = <-self.QuitChannel: return" of the select loop;
\* Close goes on to "dist.quitChan <- true".
watchQuit ==
    /\ ~crashed
    /\ closer = "watchers"
    /\ watch = "loop"
    /\ watch' = "exited"
    /\ closer' = "quit"
    /\ UNCHANGED <<mode, waiter, listening, pending, FilesLock>>

\* The send on quitChan meets the receive of Wait; Close returns.  Nothing in
\* Close touches dist.tracker.
WaitQuit ==
    /\ ~crashed
    /\ closer = "quit"
    /\ waiter = "wait"
    /\ waiter' = "done"
    /\ closer' = "closed"
    /\ UNCHANGED <<mode, watch, listening, pending, FilesLock>>

\* One announce, enough to see that the server answers.
CloseRequests ==
    [peer_id : {<<PeerName[1]>>}, port : {<<t>> : t \in PortTexts},
     ip : {<<>>}, remote : {IpName[1]}, info_hash : {<<h>> : h \in InfoHashes},
     event : {<<>>}, numwant : {<<>>}]

\* NewDistributor: nothing runs yet; the served directory is empty or holds
\* one file already.
InitClose ==
    /\ mode = "Run"
    /\ closer = "new"
    /\ waiter = "none"
    /\ watch = "none"
    /\ listening = FALSE
    /\ pending = <<>>
    /\ FilesLock = "free"
    /\ InitReg
    /\ InitHandlers
    /\ \/ InitMeta
       \/ /\ disk = [p \in Paths |-> [exists |-> TRUE, size |-> 1, mtime |-> 1, ver |-> 1]]
          /\ cache = [p \in Paths |-> NoCache]
          /\ clock = 1
          /\ writes = 1
          /\ Files = [p \in Paths |-> 0]
          /\ heap = [o \in Objects |-> FreeObject]
          /\ updates = <<>>
          /\ metaChannel = <<>>
          /\ dispatcher = IdleDispatcher
          /\ worker = IdleWorker
          /\ crashed = FALSE
          /\ pubs = [o \in Objects |-> {}]

NextClose ==
    \/ (\E m \in Modes : Start(m)) /\ UNCHANGED <<regVars, metaVars, serveVars>>
    \/ walkAndWatch /\ UNCHANGED <<regVars, serveVars>>
    \/ (\E p \in Paths : watchEvent(p)) /\ UNCHANGED <<regVars, serveVars>>
    \/ (watch # "none" /\ NextWatcher) /\ UNCHANGED <<regVars, serveVars, distVars>>
    \/ Close /\ UNCHANGED <<regVars, metaVars, serveVars>>
    \/ watchQuit /\ UNCHANGED <<regVars, metaVars, serveVars>>
    \/ WaitQuit /\ UNCHANGED <<regVars, metaVars, serveVars>>
    \/ (listening /\ ~crashed /\ handleAnnounce(CloseRequests))
           /\ UNCHANGED <<metaVars, serveVars, lockVars, distVars>>
    \/ (listening /\ NextHandlers({1})) /\ UNCHANGED <<regVars, watcherVars, distVars>>

\* The Go scheduler runs every goroutine that can take a step.
SpecClose ==
    /\ InitClose
    /\ [][NextClose]_vars
    /\ WF_vars(walkAndWatch /\ UNCHANGED <<regVars, serveVars>>)
    /\ WF_vars(watchQuit /\ UNCHANGED <<regVars, metaVars, serveVars>>)
    /\ WF_vars(WaitQuit /\ UNCHANGED <<regVars, metaVars, serveVars>>)

(***************************************************************************)
(* The start of the watcher.  walkAndWatch puts the root under watch before *)
(* it reads it, so a file written from then on has its event held by        *)
(* fsnotify until the watch goroutine receives it in its select loop.       *)
(***************************************************************************)
fsnotifyWrite(p) ==
    /\ ~crashed
    /\ watch \in {"scan", "loop"}
    /\ writes < MaxWrites
    /\ disk' = [disk EXCEPT ![p] = [exists |-> TRUE, size |-> 1, mtime |-> clock,
                                    ver |-> writes + 1]]
    /\ writes' = writes + 1
    /\ pending' = Append(pending, p)
    /\ UNCHANGED <<cache, clock, Files, heap, updates, metaChannel, dispatcher, worker,
                   crashed, pubs>>
    /\ UNCHANGED <<mode, closer, waiter, watch, listening, FilesLock>>

\* watch reaches its for/select loop only when walkAndWatch has returned.
InLoopAlways(w) == TRUE

InLoop(w) == w = "loop"

\* "case ev := <-self.Watcher.Events: updateChannel <- ev.Name"
watchForward ==
    /\ ~crashed
    /\ InLoop(watch)
    /\ pending # <<>>
    /\ updates' = Notify(Head(pending))
    /\ pending' = Tail(pending)
    /\ UNCHANGED <<disk, cache, clock, writes, Files, heap, metaChannel, dispatcher,
                   worker, crashed, pubs>>
    /\ UNCHANGED <<mode, closer, waiter, watch, listening, FilesLock>>

NextScan ==
    \/ (\E m \in Modes : Start(m)) /\ UNCHANGED <<regVars, metaVars, serveVars>>
    \/ walkAndWatch /\ UNCHANGED <<regVars, serveVars>>
    \/ (\E p \in Paths : fsnotifyWrite(p)) /\ UNCHANGED <<regVars, serveVars>>
    \/ watchForward /\ UNCHANGED <<regVars, serveVars>>
    \/ (watch # "none" /\ NextWatcher) /\ UNCHANGED <<regVars, serveVars, distVars>>

SpecScan == InitClose /\ [][NextScan]_vars

(***************************************************************************)
(* The watcher with its channels full and FilesLock in view.  The update    *)
(* channel and the metadata channel hold 1000 and 10000 names; here they    *)
(* hold MaxQueue, so that a send blocks.  One write makes fsnotify report   *)
(* several events.  The dispatcher and the worker are taken statement by    *)
(* statement where they lock, send or receive.                              *)
(***************************************************************************)
MaxQueue == 1

\* "updateChannel := make(chan string, 1000)"
UpdateCap == MaxQueue

\* "metaChannel := make(chan string, 10000)"
MetaCap == MaxQueue

\* One more event of a file that exists.
fsnotifyEvent(p) ==
    /\ ~crashed
    /\ watch = "loop"
    /\ disk[p].exists
    /\ Len(pending) < MaxQueue
    /\ pending' = Append(pending, p)
    /\ UNCHANGED <<mode, closer, waiter, watch, listening, FilesLock>>
    /\ UNCHANGED metaVars

\* "updateChannel <- ev.Name" blocks while the channel is full.
watchSend == Len(updates) < UpdateCap /\ watchForward

\* "fqfn := <-updates" and the two tests that come before the lock.
dispatcherReceive ==
    /\ ~crashed
    /\ dispatcher.pc = "recv"
    /\ updates # <<>>
    /\ updates' = Tail(updates)
    /\ dispatcher' =
          IF IsDirectory(Fqfn[Head(updates)]) \/ IsOutside(Fqfn[Head(updates)])
          THEN IdleDispatcher
          ELSE [pc |-> "lock", localfn |-> Head(updates)]
    /\ UNCHANGED <<disk, cache, clock, writes, Files, heap, metaChannel, worker,
                   crashed, pubs>>
    /\ UNCHANGED distVars

\* "self.FilesLock.Lock()" in the closure.
dispatcherLock ==
    /\ ~crashed
    /\ dispatcher.pc = "lock"
    /\ FilesLock = "free"
    /\ FilesLock' = "dispatcher"
    /\ dispatcher' = [dispatcher EXCEPT !.pc = "locked"]
    /\ UNCHANGED <<mode, closer, waiter, watch, listening, pending>>
    /\ UNCHANGED <<disk, cache, clock, writes, Files, heap, updates, metaChannel,
                   worker, crashed, pubs>>

\* "defer self.FilesLock.Unlock()": the closure returns, and with it the lock,
\* before "if requestMetadata { metaChannel <- localfn }".
LockKeptForSend(requestsMetadata) ==
    IF requestsMetadata THEN "dispatcher" ELSE "free"

LockAfterClosure(requestsMetadata) == "free"

\* The closure under the lock: the table is brought up to date.
dispatcherUpdate ==
    /\ ~crashed
    /\ dispatcher.pc = "locked"
    /\ LET fqfn == Fqfn[dispatcher.localfn]
           localfn == KeyOf[LocalName(fqfn)]
           isTracking == Files[localfn] # 0
           exists == disk[localfn].exists
           done(requestsMetadata) ==
               /\ dispatcher' = IF requestsMetadata
                                THEN [pc |-> "send", localfn |-> localfn]
                                ELSE IdleDispatcher
               /\ FilesLock' = LockAfterClosure(requestsMetadata)
       IN  IF IsIgnored(Base(fqfn))
           THEN done(FALSE) /\ UNCHANGED <<Files, heap, pubs>>
           ELSE IF IsDeleted(isTracking, exists)
           THEN /\ Files' = [Files EXCEPT ![localfn] = 0]
                /\ done(FALSE)
                /\ UNCHANGED <<heap, pubs>>
           ELSE IF exists /\ ~isTracking
           THEN /\ FreeObjects # {}
                /\ LET o == CHOOSE x \in FreeObjects : \A y \in FreeObjects : x <= y
                   IN  /\ heap' = [heap EXCEPT ![o] = NewFile(localfn)]
                       /\ Files' = [Files EXCEPT ![localfn] = o]
                       /\ pubs' = [pubs EXCEPT ![o] = {<<0, 0, NilMetadata>>}]
                /\ done(TRUE)
           ELSE done(exists) /\ UNCHANGED <<Files, heap, pubs>>
    /\ UNCHANGED <<mode, closer, waiter, watch, listening, pending>>
    /\ UNCHANGED <<disk, cache, clock, writes, updates, metaChannel, worker, crashed>>

\* "metaChannel <- localfn" blocks while the channel is full.
dispatcherSend ==
    /\ Len(metaChannel) < MetaCap
    /\ requestMetadata
    /\ FilesLock' = IF FilesLock = "dispatcher" THEN "free" ELSE FilesLock
    /\ UNCHANGED <<mode, closer, waiter, watch, listening, pending>>

\* "localfn := <-metaChannel"
workerReceive ==
    /\ ~crashed
    /\ worker.pc = "idle"
    /\ metaChannel # <<>>
    /\ metaChannel' = Tail(metaChannel)
    /\ worker' = [IdleWorker EXCEPT !.pc = "getfile", !.localfn = Head(metaChannel)]
    /\ UNCHANGED <<disk, cache, clock, writes, Files, heap, updates, dispatcher,
                   crashed, pubs>>
    /\ UNCHANGED distVars

\* "file := self.GetFile(localfn)", which takes FilesLock and gives it back,
\* then the stat and the test for a File that is up to date.
workerGetFile ==
    /\ ~crashed
    /\ worker.pc = "getfile"
    /\ FilesLock = "free"
    /\ LET localfn == worker.localfn
           file == GetFile(localfn)
       IN  IF file = 0 \/ ~disk[localfn].exists \/ UpToDate(heap[file], Stat(localfn))
           THEN worker' = IdleWorker
           ELSE worker' = [IdleWorker EXCEPT !.pc = "generate", !.localfn = localfn,
                                             !.file = file, !.info = Stat(localfn)]
    /\ UNCHANGED <<disk, cache, clock, writes, Files, heap, updates, metaChannel,
                   dispatcher, crashed, pubs>>
    /\ UNCHANGED distVars

\* The worker from GenerateMetadataInfo on: no lock of the watcher, no channel.
workerGenerate ==
    \/ GenerateMetadataInfoStart
    \/ makeHashesRead
    \/ makeHashesError
    \/ GenerateMetadataInfoFinish
    \/ metadataGeneratorCheck
    \/ metadataGeneratorSetModTime
    \/ metadataGeneratorSetMetadata

\* A handler of the tracker inside Watcher.GetFile or Watcher.GetFiles.
getFilesLock ==
    /\ FilesLock = "free"
    /\ FilesLock' = "caller"
    /\ UNCHANGED <<mode, closer, waiter, watch, listening, pending>>
    /\ UNCHANGED metaVars

getFilesUnlock ==
    /\ FilesLock = "caller"
    /\ FilesLock' = "free"
    /\ UNCHANGED <<mode, closer, waiter, watch, listening, pending>>
    /\ UNCHANGED metaVars

\* The steps the goroutines take by themselves, once they can.
watcherTasks ==
    \/ watchSend
    \/ dispatcherReceive
    \/ dispatcherLock
    \/ dispatcherUpdate
    \/ dispatcherSend
    \/ workerReceive
    \/ workerGetFile
    \/ workerGenerate /\ UNCHANGED distVars
    \/ getFilesUnlock

NextQueue ==
    \/ (\E p \in Paths : fsnotifyWrite(p)) /\ UNCHANGED <<regVars, serveVars>>
    \/ (\E p \in Paths : fsnotifyEvent(p)) /\ UNCHANGED <<regVars, serveVars>>
    \/ getFilesLock /\ UNCHANGED <<regVars, serveVars>>
    \/ watcherTasks /\ UNCHANGED <<regVars, serveVars>>

SpecQueue == Init /\ [][NextQueue]_vars

(***************************************************************************)
(* A published file that is served and seeded while it is rewritten, with   *)
(* content of the same length, and hashed again.                            *)
(***************************************************************************)
NextStale ==
    \/ (\E p \in Paths : DiskWrite(p, {1}, MaxWrites)) /\ UNCHANGED <<regVars, serveVars, distVars>>
    \/ ClockTick /\ UNCHANGED <<regVars, serveVars, distVars>>
    \/ NextWatcher /\ UNCHANGED <<regVars, serveVars, distVars>>
    \/ NextHandlers({1}) /\ UNCHANGED <<regVars, watcherVars, distVars>>

SpecStale == InitSeed /\ [][NextStale]_vars

(***************************************************************************)
(* The handlers and the seed goroutines under fair scheduling, with every   *)
(* temporary file written successfully.  A request arrives when a client    *)
(* sends one and a seed child exits when it pleases; every other step is a  *)
(* goroutine's next statement, which the scheduler runs when it can.        *)
(***************************************************************************)
handlerStep(h, outcomes) ==
    \/ serveFileWait(h)
    \/ serveFileDeref(h)
    \/ serveFileCheckSeed(h)
    \/ startSeedLock(h)
    \/ startSeed(h, outcomes)
    \/ serveFileRespond(h)

seedStep(g) ==
    \/ seedRun(g)
    \/ seedCleanup(g)
    \/ seedLock(g)
    \/ seedClear(g)

NextRespawn ==
    \/ (\E h \in Handlers : handleServe(h, ServeRequests)) /\ UNCHANGED <<regVars, watcherVars, distVars>>
    \/ (\E h \in Handlers : handlerStep(h, {"ok"})) /\ UNCHANGED <<regVars, watcherVars, distVars>>
    \/ (\E g \in Seeds : seedStep(g)) /\ UNCHANGED <<regVars, watcherVars, distVars>>
    \/ (\E g \in Seeds : seedExit(g)) /\ UNCHANGED <<regVars, watcherVars, distVars>>

SpecRespawn ==
    /\ InitSeed
    /\ [][NextRespawn]_vars
    /\ \A h \in Handlers :
          WF_vars(handlerStep(h, {"ok"}) /\ UNCHANGED <<regVars, watcherVars, distVars>>)
    /\ \A g \in Seeds :
          WF_vars(seedStep(g) /\ UNCHANGED <<regVars, watcherVars, distVars>>)

\* The same with a temporary file that may fail to be written: TempFile
\* succeeds, bencode.Marshal or tmp.Sync may not.
WriteOutcomes == SeedOutcomes \ {"tempfile"}

NextLeak ==
    \/ (\E h \in Handlers : handleServe(h, ServeRequests)) /\ UNCHANGED <<regVars, watcherVars, distVars>>
    \/ (\E h \in Handlers : handlerStep(h, WriteOutcomes)) /\ UNCHANGED <<regVars, watcherVars, distVars>>
    \/ (\E g \in Seeds : seedStep(g)) /\ UNCHANGED <<regVars, watcherVars, distVars>>
    \/ (\E g \in Seeds : seedExit(g)) /\ UNCHANGED <<regVars, watcherVars, distVars>>

SpecLeak ==
    /\ InitSeed
    /\ [][NextLeak]_vars
    /\ \A h \in Handlers :
          WF_vars(handlerStep(h, WriteOutcomes) /\ UNCHANGED <<regVars, watcherVars, distVars>>)
    /\ \A g \in Seeds :
          WF_vars(seedStep(g) /\ UNCHANGED <<regVars, watcherVars, distVars>>)

(***************************************************************************)
(* The watcher under fair scheduling: the dispatcher and the worker are two *)
(* goroutines, and each of them takes its next step when it can.  No event  *)
(* is lost: the channels never fill up.                                     *)
(***************************************************************************)
dispatcherStep == updateChannelHandler \/ requestMetadata

workerStep ==
    \/ metadataGeneratorTake
    \/ GenerateMetadataInfoStart
    \/ makeHashesRead
    \/ makeHashesError
    \/ GenerateMetadataInfoFinish
    \/ metadataGeneratorCheck
    \/ metadataGeneratorSetModTime
    \/ metadataGeneratorSetMetadata

SpecLive ==
    /\ Init
    /\ [][NextMeta]_vars
    /\ WF_vars(dispatcherStep /\ UNCHANGED <<regVars, serveVars, distVars>>)
    /\ WF_vars(workerStep /\ UNCHANGED <<regVars, serveVars, distVars>>)

(***************************************************************************)
(* A request for a file that is removed and written again, under fair       *)
(* scheduling of the watcher, the handler and the seed goroutines.          *)
(***************************************************************************)
WaitRequests == {[endpoint |-> "serve", query |-> <<"a">>]}

NextWait ==
    \/ (\E p \in Paths : DiskWrite(p, {1}, ServeWrites)) /\ UNCHANGED <<regVars, serveVars, distVars>>
    \/ (\E p \in Paths : DiskRemove(p)) /\ UNCHANGED <<regVars, serveVars, distVars>>
    \/ dispatcherStep /\ UNCHANGED <<regVars, serveVars, distVars>>
    \/ workerStep /\ UNCHANGED <<regVars, serveVars, distVars>>
    \/ handleServe(1, WaitRequests) /\ UNCHANGED <<regVars, watcherVars, distVars>>
    \/ handlerStep(1, {"ok"}) /\ UNCHANGED <<regVars, watcherVars, distVars>>
    \/ (\E g \in Seeds : seedStep(g)) /\ UNCHANGED <<regVars, watcherVars, distVars>>
    \/ (\E g \in Seeds : seedExit(g)) /\ UNCHANGED <<regVars, watcherVars, distVars>>

SpecWait ==
    /\ Init
    /\ [][NextWait]_vars
    /\ WF_vars(dispatcherStep /\ UNCHANGED <<regVars, serveVars, distVars>>)
    /\ WF_vars(workerStep /\ UNCHANGED <<regVars, serveVars, distVars>>)
    /\ WF_vars(handlerStep(1, {"ok"}) /\ UNCHANGED <<regVars, watcherVars, distVars>>)
    /\ \A g \in Seeds :
          WF_vars(seedStep(g) /\ UNCHANGED <<regVars, watcherVars, distVars>>)

(***************************************************************************)
(* The dispatcher alone, fed with every kind of event.  The worker only     *)
(* takes names off metaChannel and never writes the table, so it is left    *)
(* out here.  A file "/rx/a" exists next to the root "/r".                  *)
(***************************************************************************)
StrayEvents == {"/r", "/r/.h", "/r/a.mdcache", "/o/a", "/rx/a"}

\* "updateChannel <- ev.Name" with the name of something that is not a
\* served file.
Deliver(e) ==
    /\ Len(updates) < MaxWrites
    /\ Len(metaChannel) < MaxWrites
    /\ updates' = Notify(e)
    /\ UNCHANGED <<disk, cache, clock, writes, Files, heap, metaChannel, dispatcher,
                   worker, crashed, pubs>>

InitEvents ==
    /\ InitReg
    /\ InitServe
    /\ disk = [p \in Paths |-> NoDiskFile]
              @@ ("/a" :> [exists |-> TRUE, size |-> 1, mtime |-> 1, ver |-> 1])
    /\ cache = [p \in Paths \cup {"/a"} |-> NoCache]
    /\ clock = 1
    /\ writes = 0
    /\ Files = [p \in Paths \cup {"/a"} |-> 0]
    /\ heap = [o \in Objects |-> FreeObject]
    /\ updates = <<>>
    /\ metaChannel = <<>>
    /\ dispatcher = IdleDispatcher
    /\ worker = IdleWorker
    /\ crashed = FALSE
    /\ pubs = [o \in Objects |-> {}]

NextEvents ==
    \/ (\E e \in StrayEvents : Deliver(e)) /\ UNCHANGED <<regVars, serveVars, distVars>>
    \/ (\E p \in Paths : DiskWrite(p, {1}, MaxWrites)) /\ UNCHANGED <<regVars, serveVars, distVars>>
    \/ (\E p \in Paths : DiskRemove(p)) /\ UNCHANGED <<regVars, serveVars, distVars>>
    \/ updateChannelHandler /\ UNCHANGED <<regVars, serveVars, distVars>>
    \/ requestMetadata /\ UNCHANGED <<regVars, serveVars, distVars>>

SpecEvents == InitEvents /\ [][NextEvents]_vars

(***************************************************************************)
(* Claims about the announce handler.                                      *)
(***************************************************************************)
Accepted(a) == a.body = "peers"

\* C5: every announce response holds no peer with the requester's ip and at
\* most numwant peers.
AnnounceResponseBounded ==
    Accepted(lastAnnounce) =>
        /\ \A q \in lastAnnounce.peers : q.Ip # lastAnnounce.peer.Ip
        /\ Cardinality(lastAnnounce.peers) <= lastAnnounce.numwant

\* The response was cut short by numwant while the registry held two peers,
\* one of them returned.
AnnounceResponseBoundedWitness ==
    /\ Accepted(lastAnnounce)
    /\ lastAnnounce.numwant = 1
    /\ Cardinality(DOMAIN PeerList[lastAnnounce.info_hash]) = 2
    /\ Cardinality(lastAnnounce.peers) = 1

\* C6: after every announce the peer map and the last-seen map of an
\* info-hash have the same keys.
PeersAndSeenSameKeys ==
    \A h \in DOMAIN PeerList : DOMAIN PeerList[h] = DOMAIN PeerSeen[h]

SameAnnouncer(a, b) == a.peer = b.peer /\ a.info_hash = b.info_hash

\* C7: an announce (not a stop) that repeats the announce handled just before
\* it changes nothing but that peer's last-seen time.
AnnounceIdempotentStep ==
    (/\ Accepted(lastAnnounce) /\ lastAnnounce.event # "stopped"
     /\ Accepted(lastAnnounce') /\ lastAnnounce'.event # "stopped"
     /\ SameAnnouncer(lastAnnounce', lastAnnounce))
    => /\ PeerList' = PeerList
       /\ DOMAIN PeerSeen' = DOMAIN PeerSeen
       /\ \A k \in DOMAIN PeerSeen :
            /\ DOMAIN PeerSeen'[k] = DOMAIN PeerSeen[k]
            /\ \A i \in DOMAIN PeerSeen[k] :
                 (k # lastAnnounce.info_hash \/ i # lastAnnounce.peer.Id)
                 => PeerSeen'[k][i] = PeerSeen[k][i]

Forget(ps, info_hash, id) ==
    IF info_hash \in DOMAIN ps
    THEN (info_hash :> Restrict(ps[info_hash], DOMAIN ps[info_hash] \ {id})) @@ ps
    ELSE ps

\* C8: a regular announce that follows the same peer's stop ends in the state
\* a fresh announce of that peer (one the registry has no record of) ends in.
StopThenAnnounceStep ==
    (/\ Accepted(lastAnnounce) /\ lastAnnounce.event = "stopped"
     /\ Accepted(lastAnnounce') /\ lastAnnounce'.event # "stopped"
     /\ SameAnnouncer(lastAnnounce', lastAnnounce))
    => LET h == lastAnnounce.info_hash
           fresh == AnnounceRegistry(PeerList, Forget(PeerSeen, h, lastAnnounce.peer.Id),
                                     lastAnnounce.peer, h, lastAnnounce'.event, now)
       IN  PeerList' = fresh.PeerList /\ PeerSeen' = fresh.PeerSeen

StopThenAnnounceIsFresh == [][StopThenAnnounceStep]_vars

(***************************************************************************)
(* Claims about the seeds.                                                 *)
(***************************************************************************)
\* The seed children of a File that are alive: started by Run, not yet exited.
LiveSeeds(o) == {g \in Seeds : seeds[g].pc = "running" /\ seeds[g].file = o}

\* C1: for every File, whatever the interleaving of /serve and
\* /serve_last_updated requests with seed exits, at most one seed child
\* started by startSeed for that File is alive at any instant.
AtMostOneLiveSeed == \A o \in Objects : Cardinality(LiveSeeds(o)) <= 1

\* A handler that read SeedCommand as nil holds the lock for its re-check
\* while another handler's seed child is alive.
AtMostOneLiveSeedWitness ==
    \E h \in Handlers :
        /\ handlers[h].pc = "locked"
        /\ LiveSeeds(handlers[h].file) # {}

(***************************************************************************)
(* Claims about the metadata worker and the metadata builder.              *)
(***************************************************************************)
\* What a reader of a File sees of the worker's results.
Triple(file) == <<file.Size, file.ModTime, file.MetadataInfo>>

\* C2: the worker publishes a File's size, mtime and metadata as one atomic
\* step: in no reachable state does a File show size and mtime of one
\* publication together with the metadata of another.  pubs[o] holds the
\* triples published for File o, the one it was created with included.
PublishedAtomically ==
    \A o \in Objects : heap[o].used => Triple(heap[o]) \in pubs[o]

\* The worker takes a step.
WorkerStep == worker' # worker

\* C3: the worker writes a builder result into a File only if the (size,
\* mtime) of the stat before the builder equals the (size, mtime) of the stat
\* after it; if they differ, the File's size, mtime and metadata stay as they
\* are and nothing is enqueued again.
WriteOnlyIfUnchangedStep ==
    /\ \A o \in Objects :
          (heap[o].used /\ Triple(heap'[o]) # Triple(heap[o])) =>
              /\ o = worker.file
              /\ \/ /\ worker.pc = "stat2"
                    /\ disk[worker.localfn].exists
                    /\ Stat(worker.localfn) = worker.info
                 \/ /\ worker.pc \in {"setModTime", "setMetadata"}
                    /\ worker.info2 = worker.info
    /\ ( /\ worker.pc = "stat2"
         /\ WorkerStep
         /\ disk[worker.localfn].exists
         /\ Stat(worker.localfn) # worker.info ) =>
            /\ heap' = heap
            /\ metaChannel' = metaChannel
            /\ updates' = updates
            /\ worker'.pc = "idle"

WriteOnlyIfUnchanged == [][WriteOnlyIfUnchangedStep]_vars

\* The builder has returned a MetadataInfo and the file's mtime is no longer
\* the one of the first stat, its size is.
WriteOnlyIfUnchangedWitness ==
    /\ worker.pc = "stat2"
    /\ ~worker.mdinfo.nil
    /\ disk[worker.localfn].exists
    /\ Stat(worker.localfn).size = worker.info.size
    /\ Stat(worker.localfn).mtime # worker.info.mtime

\* ceil(a / b) for a >= 0, b > 0.
CeilDiv(a, b) == IF a % b = 0 THEN a \div b ELSE (a \div b) + 1

\* C4: every File with metadata has
\* len(metadata.pieces) = 20 * ceil(metadata.length / 262144).
PiecesMatchLength ==
    \A o \in Objects :
        ~heap[o].MetadataInfo.nil =>
            PiecesLen(heap[o].MetadataInfo)
                = 20 * CeilDiv(heap[o].MetadataInfo.Length, 262144)

\* A File published with two pieces, the second a single byte.
PiecesMatchLengthWitness ==
    \E o \in Objects :
        /\ ~heap[o].MetadataInfo.nil
        /\ heap[o].MetadataInfo.Length = 262145
        /\ Len(heap[o].MetadataInfo.Pieces) = 2

\* C9: once the builder has hashed a file and written its cache, a later run
\* on the unchanged file that accepts the cache completes and returns the
\* pieces that hashing gave.
CacheRoundTrip ==
    LET p == worker.localfn
    IN  ( /\ worker.use_cache
          /\ cache[p].hashes = ContentHashes(disk[p].ver, disk[p].size) ) =>
            /\ ~crashed
            /\ worker.pc = "stat2"
            /\ worker.mdinfo.Pieces = cache[p].hashes

\* Every event has been handled and the worker is idle.
Quiet ==
    /\ updates = <<>>
    /\ metaChannel = <<>>
    /\ dispatcher.pc = "recv"
    /\ worker.pc = "idle"

\* C10: a tracked file whose size on disk is 0 has no cache, has no metadata
\* once the worker has processed it, and no response carries a torrent
\* document for it.
EmptyFileNeverServed ==
    \A p \in Paths :
        (disk[p].exists /\ disk[p].size = 0 /\ Files[p] # 0 /\ Quiet) =>
            /\ heap[Files[p]].MetadataInfo.nil
            /\ ~(handlers[1].pc = "respond" /\ handlers[1].file = Files[p])

(***************************************************************************)
(* Claims about makeHashes.                                                *)
(***************************************************************************)
\* makeHashes has returned.
Returned == worker.pc \in {"returned", "error"}

\* The length of the byte source.
SourceSize == disk[worker.localfn].size

\* C11: for a source of exactly N bytes declared with length N, makeHashes
\* returns no error, N bytes consumed and ceil(N / PIECE_LENGTH) digests in
\* piece order, each over the bytes of its own piece only.
ExactSourceHashed ==
    (Returned /\ SourceSize = worker.dataSize) =>
        /\ worker.pc = "returned"
        /\ worker.bytesRead = worker.dataSize
        /\ Len(worker.hashes) = CeilDiv(worker.dataSize, 262144)
        /\ \A i \in 1..Len(worker.hashes) :
              worker.hashes[i] =
                  <<1, (i - 1) * 262144,
                    IF i * 262144 <= worker.dataSize THEN 262144
                    ELSE worker.dataSize - (i - 1) * 262144>>

\* Two digests for a source of PIECE_LENGTH + 1 bytes.
ExactSourceHashedWitness ==
    /\ worker.pc = "returned"
    /\ SourceSize = 262145
    /\ worker.dataSize = 262145
    /\ Len(worker.hashes) = 2

\* C12: when the source holds fewer bytes than the declared length N,
\* makeHashes returns an empty digest sequence, 0 bytes consumed and no error.
ShortSourceReturnsEmpty ==
    (Returned /\ SourceSize < worker.dataSize) =>
        /\ worker.pc = "returned"
        /\ worker.hashes = <<>>
        /\ worker.bytesRead = 0

\* C12 as amended: when the source holds fewer bytes than the declared
\* length N, makeHashes returns an error if the source ends inside a chunk,
\* and otherwise returns without error the digests of the whole chunks read
\* and their byte count; the empty result with 0 bytes and no error is what
\* it returns once it has consumed more bytes than declared.
ShortOrGrownSourceStep ==
    (worker.pc = "hash" /\ worker'.pc \in {"returned", "error"}) =>
        /\ SourceSize < worker.dataSize =>
              IF SourceSize % 262144 = 0
              THEN /\ worker'.pc = "returned"
                   /\ worker'.bytesRead = SourceSize
                   /\ Len(worker'.hashes) = SourceSize \div 262144
              ELSE worker'.pc = "error"
        /\ worker.bytesRead > worker.dataSize =>
              /\ worker'.pc = "returned"
              /\ worker'.hashes = <<>>
              /\ worker'.bytesRead = 0

ShortOrGrownSource == [][ShortOrGrownSourceStep]_vars

\* A source of one piece declared one byte longer: one digest is returned.
ShortOrGrownSourceWitness ==
    /\ worker.pc = "returned"
    /\ SourceSize = 262144
    /\ worker.dataSize = 262145
    /\ Len(worker.hashes) = 1

(***************************************************************************)
(* More claims about the announce handler.                                 *)
(***************************************************************************)
\* C13: an announce lacking info_hash, peer_id or port is answered
\* "missing required argument" and leaves the registry as it was: no
\* request without info_hash ever registers a peer.
MissingArgumentRejected ==
    /\ lastAnnounce.lacks # {} => lastAnnounce.body = "missing required argument"
    /\ "" \notin DOMAIN PeerList
    /\ "" \notin DOMAIN PeerSeen

(***************************************************************************)
(* C20.  The numwant a response is built with.                             *)
(***************************************************************************)
\* The text is a decimal number of 1..3 digits, the only texts here that
\* can denote a value up to 100.
IsDecimal(t) == t # <<>> /\ \A i \in 1..Len(t) : t[i] \in Digits

\* C20 as stated: the effective numwant of an announce is 50 when the
\* parameter is absent, the supplied value when it lies in 1..100, and 100
\* for every supplied value outside 1..100.
NumWantClampedToOneHundred ==
    lastAnnounce.body = "peers" =>
        lastAnnounce.numwant =
            IF lastAnnounce.supplied = <<>> THEN 50
            ELSE LET t == lastAnnounce.supplied[1] IN
                 IF IsDecimal(t) /\ DecimalValue(t) \in 1..100
                 THEN DecimalValue(t)
                 ELSE 100

\* C20 amended: the effective numwant of an announce is 50 when the
\* parameter is absent, the supplied value when it is a decimal number in
\* 0..100, and 100 for every other supplied value (negative, greater than
\* 100, or not a number); the response carries at most that many peers.
NumWantZeroKept ==
    lastAnnounce.body = "peers" =>
        /\ lastAnnounce.numwant =
               IF lastAnnounce.supplied = <<>> THEN 50
               ELSE LET t == lastAnnounce.supplied[1] IN
                    IF IsDecimal(t) /\ DecimalValue(t) \in 0..100
                    THEN DecimalValue(t)
                    ELSE 100
        /\ Cardinality(lastAnnounce.peers) <= lastAnnounce.numwant

\* An announce with numwant=0 has been answered, with no peer, while another
\* host's peer is registered.
NumWantZeroKeptWitness ==
    /\ lastAnnounce.body = "peers"
    /\ lastAnnounce.supplied = <<<<"0">>>>
    /\ lastAnnounce.numwant = 0
    /\ lastAnnounce.peers = {}
    /\ lastAnnounce.info_hash = "X"
    /\ \E id \in DOMAIN PeerList["X"] : PeerList["X"][id].Ip # lastAnnounce.peer.Ip

(***************************************************************************)
(* Claims about /serve.                                                    *)
(***************************************************************************)
\* C14: a /serve request for a tracked file without metadata sends nothing
\* while the metadata stays nil; once metadata is published the handler goes
\* through the seed supervisor and then answers with the torrent document
\* carrying a metadata published for that File.
ServeWaitsForMetadataStep ==
    LET h == handlers[1] IN
    /\ (h.pc = "wait" /\ heap[h.file].MetadataInfo.nil) =>
           /\ lastServe' = lastServe
           /\ handlers'[1].pc = "wait"
    /\ (h.slept /\ h.pc # "idle" /\ handlers'[1].pc = "idle") =>
           /\ h.pc = "respond"
           /\ lastServe'.body = "torrent"
           /\ lastServe'.file = h.file
           /\ ~lastServe'.info.nil
           /\ \E t \in pubs[h.file] : t[3] = lastServe'.info

ServeWaitsForMetadata == [][ServeWaitsForMetadataStep]_vars

\* The Files with metadata that findLastUpdatedFile chooses among.
WithMetadata == {o \in GetFiles : ~heap[o].MetadataInfo.nil}

\* C15: /serve_last_updated, with a watcher's name or with none, hands to
\* serveFile a File that has metadata and whose ModTime no other File with
\* metadata exceeds (no File when none has metadata); with a name that
\* matches no watcher it answers "invalid watcher name" and selects no file.
LastUpdatedIsNewest ==
    \A r \in {q \in ServeRequests : q.endpoint = "serve_last_updated"} :
        /\ handleServeLastUpdated(r) # {}
        /\ \A out \in handleServeLastUpdated(r) :
              IF r.query # <<>> /\ r.query[1] # "root"
              THEN out.body = "invalid watcher name" /\ out.file = 0
              ELSE /\ out.body = None
                   /\ IF WithMetadata = {} THEN out.file = 0
                      ELSE /\ out.file \in WithMetadata
                           /\ \A x \in WithMetadata :
                                  heap[x].ModTime <= heap[out.file].ModTime

\* A handler serves the newer of two Files with metadata.
LastUpdatedIsNewestWitness ==
    /\ handlers[1].pc = "respond"
    /\ \E x \in WithMetadata : heap[x].ModTime < heap[handlers[1].file].ModTime

(***************************************************************************)
(* Claims about the watcher's table.                                       *)
(***************************************************************************)
\* C16 as stated: once a tracked file has been removed from disk, no lookup
\* (GetFile, GetFiles) returns its File.
RemovedFileNeverFound ==
    \A p \in Paths :
        ~disk[p].exists =>
            /\ GetFile(p) = 0
            /\ \A o \in GetFiles : heap[o].Name # p

\* C16 amended: once the watcher has handled every event of a file that is
\* no longer on disk, no lookup returns a File for it; until then a lookup
\* can still return the File of the removed file.
RemovedFileGoneOnceHandled ==
    \A p \in Paths :
        (~disk[p].exists /\ updates = <<>> /\ dispatcher.pc = "recv") =>
            /\ GetFile(p) = 0
            /\ \A o \in GetFiles : heap[o].Name # p

\* A file that was tracked and published has been removed and its event
\* handled.
RemovedFileGoneOnceHandledWitness ==
    /\ ~disk["a"].exists
    /\ updates = <<>>
    /\ dispatcher.pc = "recv"
    /\ GetFile("a") = 0
    /\ \E o \in Objects : heap[o].used /\ heap[o].Name = "a" /\ ~heap[o].MetadataInfo.nil

(***************************************************************************)
(* Claims about concurrent announces.                                      *)
(***************************************************************************)
\* The handlers inside the critical section.
InSection == {h \in Announcers : announcers[h].pc \in {"update", "respond"}}

\* C17: announces are linearizable.  The order is that of the handlers'
\* updates: each update is applied to the registry the previous one left,
\* no two handlers are between Lock and Unlock together, and each response
\* is one that the request, run alone on the registry left by the update
\* before it, would get; the registry is still as that run leaves it.
AnnouncesLinearizedStep ==
    /\ Cardinality(InSection) <= 1
    /\ \A h \in Announcers :
          (announcers[h].pc = "respond" /\ announcers'[h].pc = "idle") =>
              LET r == announcers[h].req
                  alone == announcers[h].after
                  peer == parsePeer(r).peer
              IN  /\ PeerList = alone.PeerList
                  /\ PeerSeen = alone.PeerSeen
                  /\ PeerList' = alone.PeerList
                  /\ PeerSeen' = alone.PeerSeen
                  /\ lastAnnounce'.body = "peers"
                  /\ lastAnnounce'.peer = peer
                  /\ \E W \in Windows(alone.PeerList[InfoHashOf(r)], NumWantOf(r)) :
                         lastAnnounce'.peers =
                             OutPeers(alone.PeerList[InfoHashOf(r)], W, peer)

AnnouncesLinearized == [][AnnouncesLinearizedStep]_vars

\* A handler has answered while another, which arrived before the answer,
\* waits for the lock, and a peer of another host was returned.
AnnouncesLinearizedWitness ==
    /\ lastAnnounce.body = "peers"
    /\ lastAnnounce.peers # {}
    /\ \E h \in Announcers : announcers[h].pc = "lock"
    /\ \E h \in Announcers : announcers[h].pc = "respond"

(***************************************************************************)
(* Claims about Close.                                                     *)
(***************************************************************************)
\* C18: every call of Close on a started distributor, started with Run or
\* with Start alone, during the watcher's first walk or after it, returns
\* in the end (unless the process has exited on a fatal error).
CloseReturns == (closer = "watchers") ~> (closer = "closed" \/ crashed)

\* C19: after Close has returned the listener is closed and no /serve,
\* /serve_last_updated or /announce request is accepted any more.
BindReleasedStep ==
    closer = "closed" =>
        /\ ~listening
        /\ lastAnnounce' = lastAnnounce
        /\ handlers[1].pc = "idle" => (handlers' = handlers /\ lastServe' = lastServe)

BindReleased == [][BindReleasedStep]_vars

(***************************************************************************)
(* Claims about what an announce does to the registry.                     *)
(***************************************************************************)
\* A step that handles an accepted announce: time stands still during it.
AnnounceStep == now' = now /\ Accepted(lastAnnounce') /\ regVars' # regVars

\* The two maps of the announce's info-hash before and after the step.
PeersBefore == MapOf(PeerList, lastAnnounce'.info_hash)
SeenBefore == MapOf(PeerSeen, lastAnnounce'.info_hash)
PeersAfter == MapOf(PeerList', lastAnnounce'.info_hash)
SeenAfter == MapOf(PeerSeen', lastAnnounce'.info_hash)

\* The announce comes from a peer id that the peer map does not hold.
NewPeerStep == AnnounceStep /\ lastAnnounce'.peer.Id \notin DOMAIN PeersBefore

\* The entry's own last report is no older than the limit.
Recent(id) == id \in DOMAIN SeenBefore /\ now - SeenBefore[id] <= PeerAgeLimit

\* C22: when a peer id that is not in the peer map announces, every entry
\* with the arriving peer's ip is deleted from both maps and the arriving
\* peer is inserted (unless it is stopping); entries with another ip and a
\* recent last-seen time are kept.
SameIpPurgedStep ==
    NewPeerStep =>
        /\ \A id \in DOMAIN PeersBefore :
              PeersBefore[id].Ip = lastAnnounce'.peer.Ip =>
                  id \notin DOMAIN PeersAfter /\ id \notin DOMAIN SeenAfter
        /\ lastAnnounce'.event # "stopped" =>
              /\ lastAnnounce'.peer.Id \in DOMAIN PeersAfter
              /\ PeersAfter[lastAnnounce'.peer.Id] = lastAnnounce'.peer
        /\ \A id \in DOMAIN PeersBefore :
              (PeersBefore[id].Ip # lastAnnounce'.peer.Ip /\ Recent(id)) =>
                  /\ id \in DOMAIN PeersAfter
                  /\ PeersAfter[id] = PeersBefore[id]
                  /\ id \in DOMAIN SeenAfter

SameIpPurged == [][SameIpPurgedStep]_vars

\* C23: when a peer id that is not in the peer map announces, every entry
\* whose own last-seen time is more than 300 seconds old is deleted from
\* both maps.
OldEntriesPurgedStep ==
    NewPeerStep =>
        \A id \in DOMAIN PeersBefore :
            (id \in DOMAIN SeenBefore /\ now - SeenBefore[id] > PeerAgeLimit) =>
                id \notin DOMAIN PeersAfter /\ id \notin DOMAIN SeenAfter

OldEntriesPurged == [][OldEntriesPurgedStep]_vars

\* C24: an announce removes from the peer map nothing but entries with the
\* arriving peer's ip or with an own last-seen time older than 300 seconds
\* (and these only when the arriving peer id is new), and the arriving peer
\* itself when it stops: an entry with another ip that reported within the
\* last 300 seconds survives every announce of another peer.
OnlyPurgedEntriesRemovedStep ==
    AnnounceStep =>
        \A id \in DOMAIN PeersBefore \ DOMAIN PeersAfter :
            \/ id = lastAnnounce'.peer.Id /\ lastAnnounce'.event = "stopped"
            \/ /\ NewPeerStep
               /\ \/ PeersBefore[id].Ip = lastAnnounce'.peer.Ip
                  \/ ~Recent(id)

OnlyPurgedEntriesRemoved == [][OnlyPurgedEntriesRemovedStep]_vars

\* C25 as stated: after an announce that is not a stop, the peer map holds
\* exactly the (id, ip, port) of that announce under its peer id, also when
\* the id was there with another ip or port, and the last-seen time of the
\* id is the time of the announce.
AnnounceOverwritesPeerStep ==
    (AnnounceStep /\ lastAnnounce'.event # "stopped") =>
        /\ lastAnnounce'.peer.Id \in DOMAIN PeersAfter
        /\ PeersAfter[lastAnnounce'.peer.Id] = lastAnnounce'.peer
        /\ SeenAfter[lastAnnounce'.peer.Id] = now

AnnounceOverwritesPeer == [][AnnounceOverwritesPeerStep]_vars

\* C25 amended: after an announce that is not a stop, the peer map has an
\* entry under its peer id: the (id, ip, port) of that announce when the id
\* was not in the map, the entry that was there, with its old ip and port,
\* when it was; the last-seen time of the id is the time of the announce.
AnnounceKeepsKnownPeerStep ==
    (AnnounceStep /\ lastAnnounce'.event # "stopped") =>
        /\ lastAnnounce'.peer.Id \in DOMAIN PeersAfter
        /\ PeersAfter[lastAnnounce'.peer.Id] =
               IF lastAnnounce'.peer.Id \in DOMAIN PeersBefore
               THEN PeersBefore[lastAnnounce'.peer.Id]
               ELSE lastAnnounce'.peer
        /\ SeenAfter[lastAnnounce'.peer.Id] = now

AnnounceKeepsKnownPeer == [][AnnounceKeepsKnownPeerStep]_vars

\* A peer id registered at one host has announced from the other host, later
\* on, and its entry still names the first host.
AnnounceKeepsKnownPeerWitness ==
    /\ Accepted(lastAnnounce)
    /\ lastAnnounce.event # "stopped"
    /\ now > 0
    /\ lastAnnounce.peer.Id \in DOMAIN MapOf(PeerList, lastAnnounce.info_hash)
    /\ PeerList[lastAnnounce.info_hash][lastAnnounce.peer.Id].Ip # lastAnnounce.peer.Ip
    /\ PeerSeen[lastAnnounce.info_hash][lastAnnounce.peer.Id] = now

\* C26: the last-seen entry that a stopped peer left behind is deleted by
\* the sweep of a new peer's announce that arrives more than 300 seconds
\* after the stop.
StoppedEntrySweptStep ==
    NewPeerStep =>
        \A id \in DOMAIN SeenBefore \ DOMAIN PeersBefore :
            (id # lastAnnounce'.peer.Id /\ now - SeenBefore[id] > PeerAgeLimit) =>
                id \notin DOMAIN SeenAfter

StoppedEntrySwept == [][StoppedEntrySweptStep]_vars

(***************************************************************************)
(* Claims about the builder and the worker when a file gives no metadata.  *)
(***************************************************************************)
\* makeHashes is about to return its empty result without error: more bytes
\* were read than the declared size.
Unstable == worker.pc = "hash" /\ worker.dataSize - worker.bytesRead < 0

\* C27: when makeHashes returns its empty, error-free result, the builder
\* returns nil without error: the process keeps running, no cache file is
\* written and the worker publishes nothing for the file in this round.
UnstableResultSkippedStep ==
    (Unstable /\ worker' # worker) =>
        /\ ~crashed'
        /\ cache' = cache
        /\ worker'.mdinfo.nil
        /\ heap' = heap

UnstableResultSkipped == [][UnstableResultSkippedStep]_vars

\* The builder has returned nil without error and the worker goes on.
NoneReturned == worker.pc \in {"stat2", "setModTime", "setMetadata"} /\ worker.mdinfo.nil

\* C28: when the builder returns nil for a tracked file, the worker leaves
\* the File's size, mtime and metadata as they are, so a metadata that was
\* published never goes back to nil.
NoneResultIgnoredStep ==
    /\ NoneReturned => \A o \in Objects : Triple(heap'[o]) = Triple(heap[o])
    /\ \A o \in Objects :
          (heap[o].used /\ ~heap[o].MetadataInfo.nil) => ~heap'[o].MetadataInfo.nil

NoneResultIgnored == [][NoneResultIgnoredStep]_vars

\* A step in which the dispatcher takes an event off the update channel.
EventTaken ==
    dispatcher.pc = "recv" /\ updates # <<>> /\ Len(updates') < Len(updates)

\* C29: the event of a regular, non-ignored path under the root.  If the path
\* exists, it is a key of the table afterwards (a fresh File when it was not
\* tracked, the same File object when it was) and exactly one work item for
\* it is enqueued; if it is gone and was tracked, its entry is removed and
\* nothing is enqueued; if it is gone and was not tracked, nothing changes.
EventUpdatesTableStep ==
    /\ (EventTaken /\ Head(updates) \in Paths) =>
          LET p == Head(updates) IN
          /\ metaChannel' = metaChannel
          /\ (disk[p].exists /\ Files[p] = 0) =>
                /\ Files'[p] \in Objects
                /\ ~heap[Files'[p]].used
                /\ heap'[Files'[p]] = NewFile(p)
                /\ dispatcher' = [pc |-> "send", localfn |-> p]
          /\ (disk[p].exists /\ Files[p] # 0) =>
                /\ Files' = Files
                /\ heap' = heap
                /\ dispatcher' = [pc |-> "send", localfn |-> p]
          /\ (~disk[p].exists /\ Files[p] # 0) =>
                /\ Files'[p] = 0
                /\ dispatcher' = dispatcher
          /\ (~disk[p].exists /\ Files[p] = 0) =>
                /\ Files' = Files
                /\ heap' = heap
                /\ dispatcher' = dispatcher
    /\ (dispatcher.pc = "send" /\ dispatcher' # dispatcher) =>
          /\ metaChannel' = Append(metaChannel, dispatcher.localfn)
          /\ dispatcher'.pc = "recv"
          /\ Files' = Files
    /\ Len(metaChannel') > Len(metaChannel) => dispatcher.pc = "send"

EventUpdatesTable == [][EventUpdatesTableStep]_vars

\* The event of a tracked, published file has been handled: the table still
\* names the same File and the work item is about to be sent.
EventUpdatesTableWitness ==
    /\ dispatcher = [pc |-> "send", localfn |-> "a"]
    /\ Files["a"] # 0
    /\ ~heap[Files["a"]].MetadataInfo.nil

\* A path below the root directory.
UnderRoot(fqfn) == HasPrefix(fqfn, Directory \o <<"/">>)

\* The events the dispatcher is to ignore.
ToBeIgnored(e) ==
    \/ Fqfn[e] = Directory
    \/ HasPrefix(Base(Fqfn[e]), <<".">>)
    \/ HasSuffix(Base(Fqfn[e]), <<".", "m", "d", "c", "a", "c", "h", "e">>)
    \/ ~UnderRoot(Fqfn[e])

\* The local name a key of the table stands for.
Spelled(k) == CHOOSE l \in DOMAIN KeyOf : KeyOf[l] = k

IgnoredEventStep ==
    (EventTaken /\ ToBeIgnored(Head(updates))) =>
        /\ Files' = Files
        /\ dispatcher' = dispatcher
        /\ metaChannel' = metaChannel

NoIgnoredKey ==
    \A k \in DOMAIN Files :
        Files[k] # 0 =>
            /\ ~HasPrefix(Base(Spelled(k)), <<".">>)
            /\ ~HasSuffix(Base(Spelled(k)), <<".", "m", "d", "c", "a", "c", "h", "e">>)

\* C30: an event of the root itself, of a path whose base name starts with
\* "." or ends with ".mdcache", or of a path that is not under the root
\* leaves the file table as it is and enqueues no work; so no key of the
\* table ever has such a base name.
IgnoredEventsLeaveTable == [][IgnoredEventStep]_vars /\ []NoIgnoredKey

\* What a regular file of non-zero size can be on disk.
FinalDisks ==
    [exists : {TRUE}, size : Sizes \ {0}, mtime : 1..MaxClock, ver : 1..MaxWrites]

\* The File of "a" carries metadata and the size and mtime the disk shows.
Settled ==
    /\ Files["a"] # 0
    /\ ~heap[Files["a"]].MetadataInfo.nil
    /\ heap[Files["a"]].Size = disk["a"].size
    /\ heap[Files["a"]].ModTime = disk["a"].mtime

\* C21: under fair scheduling, when a tracked regular file of non-zero size
\* stops changing on disk, its File eventually has metadata, and the size and
\* mtime of the file as it finally is.
StableFileSettles ==
    \A d \in FinalDisks :
        <>[](disk["a"] = d /\ Files["a"] # 0) => <>(disk["a"] = d /\ Settled)

\* C35: after any sequence of announces every registered peer of an info-hash
\* has a last-seen time: the keys of its peer map are keys of its last-seen
\* map.
RegisteredPeersSeen ==
    \A h \in DOMAIN PeerList : DOMAIN PeerList[h] \subseteq DOMAIN MapOf(PeerSeen, h)

\* A peer is registered while another, which has stopped, is only remembered
\* by its last-seen time.
RegisteredPeersSeenWitness ==
    \E h \in DOMAIN PeerList :
        /\ DOMAIN PeerList[h] # {}
        /\ DOMAIN PeerList[h] # DOMAIN PeerSeen[h]

\* C36: after any sequence of announces no two entries of the peer map of an
\* info-hash have the same ip.
OnePeerPerIp ==
    \A h \in DOMAIN PeerList :
        \A i, j \in DOMAIN PeerList[h] :
            PeerList[h][i].Ip = PeerList[h][j].Ip => i = j

\* Two peers are registered, the one that announced last under the ip it
\* announced from.
OnePeerPerIpWitness ==
    /\ Accepted(lastAnnounce)
    /\ lastAnnounce.info_hash \in DOMAIN PeerList
    /\ Cardinality(DOMAIN PeerList[lastAnnounce.info_hash]) = 2
    /\ lastAnnounce.peer.Id \in DOMAIN PeerList[lastAnnounce.info_hash]
    /\ PeerList[lastAnnounce.info_hash][lastAnnounce.peer.Id] = lastAnnounce.peer

\* C37: no announce response holds an entry with the requester's own peer
\* id, also when the requester announces from another ip than the one it
\* registered with.
ResponseOmitsRequester ==
    Accepted(lastAnnounce) =>
        \A q \in lastAnnounce.peers : q.Id # lastAnnounce.peer.Id

\* A step in which seed goroutine g comes into being.
Spawned(g) == seeds[g].pc = "free" /\ seeds'[g].pc = "start"

\* Spawns happen only while the File has no seed command, and the command
\* is cleared only by the seed goroutine holding seedStartLock.
SeedHandleStep ==
    /\ \A g \in Seeds : Spawned(g) => heap[seeds'[g].file].SeedCommand = 0
    /\ \A o \in Objects :
          (heap[o].SeedCommand # 0 /\ heap'[o].SeedCommand = 0) =>
              seedStartLock = -heap[o].SeedCommand

TempFilesRemoved ==
    /\ \A g \in Seeds :
          (seeds[g].pc = "cleanup") ~> (<<"seed", g>> \notin tmpfiles)
    /\ \A o \in Objects :
          (<<"failed", o>> \in tmpfiles) ~> (<<"failed", o>> \notin tmpfiles)

\* C32: when the watcher starts, the event of every file found by the first
\* walk is on the update channel before any event of the subscription is:
\* the channel is empty until the walk has run, the walk queues every
\* existing file, only then is an event of fsnotify forwarded, and the
\* dispatcher takes events from the head of the channel.
ScanBeforeEventsStep ==
    /\ watch = "scan" => updates = <<>>
    /\ (watch = "scan" /\ watch' = "loop") =>
          \A p \in Paths :
              disk[p].exists =>
                  \E i \in (Len(updates) + 1)..Len(updates') : updates'[i] = p
    /\ Len(pending') < Len(pending) => watch = "loop"
    /\ EventTaken => updates' = Tail(updates)

WorkLeft ==
    \/ pending # <<>>
    \/ updates # <<>>
    \/ dispatcher.pc # "recv"
    \/ metaChannel # <<>>
    \/ worker.pc # "idle"
    \/ FilesLock # "free"

\* C31: the dispatcher never sends on the metadata channel while it holds
\* FilesLock, and the watch loop, the dispatcher, the worker and the callers
\* of GetFile and GetFiles never all wait for one another, the channels
\* being full or not: as long as the process lives and work is left, one of
\* them can take a step.
NoWatcherDeadlock ==
    /\ dispatcher.pc = "send" => FilesLock # "dispatcher"
    /\ (WorkLeft /\ ~crashed) => ENABLED watcherTasks

\* Both channels are full, fsnotify holds one more event, the dispatcher is
\* blocked in its send, and the worker waits for the lock a caller holds.
NoWatcherDeadlockWitness ==
    /\ Len(updates) = UpdateCap
    /\ Len(metaChannel) = MetaCap
    /\ pending # <<>>
    /\ dispatcher.pc = "send"
    /\ worker.pc = "getfile"
    /\ FilesLock = "caller"

\* C38: while a seed child of a File is alive, the metadata its torrent file
\* was written from is the metadata the File has published now, which is
\* what /serve answers with, also after the file was changed and hashed
\* again.
SeedMatchesPublished ==
    \A g \in Seeds :
        seeds[g].pc = "running" => seeds[g].md = heap[seeds[g].file].MetadataInfo

\* C40: whenever the builder accepts a hash cache (the cache is not older
\* than the file and has the length the file's size asks for), the cached
\* pieces are the piece digests of the content the file has now.
AcceptedCacheIsCurrent ==
    worker.use_cache =>
        cache[worker.localfn].hashes
            = ContentHashes(disk[worker.localfn].ver, disk[worker.localfn].size)

\* The requested path holds content that is not empty.
HoldsContent == disk["a"].exists /\ disk["a"].size > 0

\* C39: a /serve request that found a tracked File gets its response once
\* the path holds stable content that is not empty, also when the file was
\* removed and written again while the handler waited for metadata.  The
\* end of the process counts as an end of the wait here.
ServeAnswered ==
    <>[]HoldsContent =>
        [](handlers[1].pc = "wait" => <>(handlers[1].pc # "wait" \/ crashed))
====
